---- MODULE Spec2Model ----
(***************************************************************************)
(* Model of the WhatsApp hotel bot: the disclosure policy, the enum        *)
(* normalization of reservations, the dialogue core (build_answer and      *)
(* handle_incoming_message over session_store) and the booking-service     *)
(* client with its bearer-token cache.                                     *)
(*                                                                         *)
(* A Python str is a sequence of one-character strings, so lower(),        *)
(* upper(), strip(), "k in t", startswith() and the regular expressions    *)
(* are computed.  Characters outside ASCII are written as atoms:           *)
(* "i_grave" is U+00EC and "rsquo" is U+2019.  None is the empty sequence  *)
(* wherever a value is optional; Python values of varying type (the enum   *)
(* fields of a reservation) are tagged records.                            *)
(***************************************************************************)
EXTENDS Integers, Sequences, FiniteSets, TLC

\* ---------------------------------------------------------------- text

UpperCaseLetters ==
  <<"A","B","C","D","E","F","G","H","I","J","K","L","M",
    "N","O","P","Q","R","S","T","U","V","W","X","Y","Z">>
LowerCaseLetters ==
  <<"a","b","c","d","e","f","g","h","i","j","k","l","m",
    "n","o","p","q","r","s","t","u","v","w","x","y","z">>
Digits == {"0","1","2","3","4","5","6","7","8","9"}
Whitespace == {" "}
\* \w of the re module on the alphabet used here
WordChars ==
  {UpperCaseLetters[i] : i \in DOMAIN UpperCaseLetters}
    \cup {LowerCaseLetters[i] : i \in DOMAIN LowerCaseLetters}
    \cup Digits \cup {"_", "i_grave"}

lower_char(c) ==
  IF \E i \in DOMAIN UpperCaseLetters : UpperCaseLetters[i] = c
  THEN LowerCaseLetters[CHOOSE i \in DOMAIN UpperCaseLetters : UpperCaseLetters[i] = c]
  ELSE c
upper_char(c) ==
  IF \E i \in DOMAIN LowerCaseLetters : LowerCaseLetters[i] = c
  THEN UpperCaseLetters[CHOOSE i \in DOMAIN LowerCaseLetters : LowerCaseLetters[i] = c]
  ELSE c
str_lower(t) == [i \in 1..Len(t) |-> lower_char(t[i])]
str_upper(t) == [i \in 1..Len(t) |-> upper_char(t[i])]

RECURSIVE str_lstrip(_)
str_lstrip(t) ==
  IF t # <<>> /\ Head(t) \in Whitespace THEN str_lstrip(Tail(t)) ELSE t
RECURSIVE str_rstrip(_)
str_rstrip(t) ==
  IF t # <<>> /\ t[Len(t)] \in Whitespace
  THEN str_rstrip(SubSeq(t, 1, Len(t) - 1)) ELSE t
str_strip(t) == str_rstrip(str_lstrip(t))

\* k in t
str_contains(k, t) ==
  \E i \in 0..(Len(t) - Len(k)) : SubSeq(t, i + 1, i + Len(k)) = k
str_startswith(t, w) == Len(w) <= Len(t) /\ SubSeq(t, 1, Len(w)) = w
\* any(k in t for k in keys)
any_in(keys, t) == \E k \in keys : str_contains(k, t)

\* ---------------------------------------------------------------- values

\* A value of a reservation's enum field: None, a str or an int.
PyNone == [t |-> "none", s |-> <<>>, n |-> 0]
PyStr(x) == [t |-> "str", s |-> x, n |-> 0]
PyInt(k) == [t |-> "int", s |-> <<>>, n |-> k]

S_CANCELED == <<"C","A","N","C","E","L","E","D">>
S_CONFIRMED == <<"C","O","N","F","I","R","M","E","D">>
S_PENDING == <<"P","E","N","D","I","N","G">>
S_NOT_ARRIVED == <<"N","O","T","_","A","R","R","I","V","E","D">>
S_ARRIVED == <<"A","R","R","I","V","E","D">>
S_LEFT == <<"L","E","F","T">>
S_TO_DO == <<"T","O","_","D","O">>
S_COMPLETED == <<"C","O","M","P","L","E","T","E","D">>
S_VERIFIED == <<"V","E","R","I","F","I","E","D">>

\* A date field: None, "", an ISO date (with or without a time part after
\* the first ten characters) or a string that is no ISO date.
NoDate == [t |-> "none", d |-> 0]
EmptyDate == [t |-> "empty", d |-> 0]
BadDate == [t |-> "bad", d |-> 0]
Ymd(d) == [t |-> "ymd", d |-> d]
YmdT(d) == [t |-> "ymdT", d |-> d]

\* date.today(), as a day number
Today == 10

\* _parse_ymd: <<>> is None, <<d>> the parsed date
_parse_ymd(d) ==
  IF d.t \in {"ymd", "ymdT"} THEN <<d.d>> ELSE <<>>

\* (res.get("start_date") or "")[:10]
date_prefix(d) ==
  CASE d.t = "none" -> EmptyDate
    [] d.t = "ymdT" -> Ymd(d.d)
    [] OTHER -> d

\* ---------------------------------------------------------------- normalization

status_map(k) ==
  CASE k = 1 -> PyStr(S_CANCELED) [] k = 2 -> PyStr(S_CONFIRMED)
    [] k = 3 -> PyStr(S_PENDING) [] OTHER -> PyInt(k)
guest_map(k) ==
  CASE k = 0 -> PyStr(S_NOT_ARRIVED) [] k = 1 -> PyStr(S_ARRIVED)
    [] k = 2 -> PyStr(S_LEFT) [] OTHER -> PyInt(k)
checkin_map(k) ==
  CASE k = 0 -> PyStr(S_TO_DO) [] k = 1 -> PyStr(S_COMPLETED)
    [] k = 2 -> PyStr(S_VERIFIED) [] OTHER -> PyInt(k)

\* _map(v, m): a str passes through, m.get(v, v) otherwise (None stays None)
\* _map that also brings a str to upper case
map_status_upper(v) ==
  IF v.t = "int" THEN status_map(v.n)
  ELSE IF v.t = "str" THEN PyStr(str_upper(v.s)) ELSE v
map_status(v) == IF v.t = "int" THEN status_map(v.n) ELSE v
map_guest(v) == IF v.t = "int" THEN guest_map(v.n) ELSE v
map_checkin(v) == IF v.t = "int" THEN checkin_map(v.n) ELSE v

\* A reservation: id, the three enum fields, the dates, the name under
\* "property" and the flat "property_name" (<<>> when the key is missing),
\* and the id under "client" (0 when there is none).
_normalize_reservation(res) ==
  [res EXCEPT
     !.status = map_status(res.status),
     !.guest_status = map_guest(res.guest_status),
     !.is_checkin_completed = map_checkin(res.is_checkin_completed),
     !.property_name =
        IF res.property_name = <<>> /\ res.property # <<>>
        THEN res.property ELSE res.property_name]

\* ---------------------------------------------------------------- policy

\* (v or ""): raises AttributeError on .upper() when v is a non-zero int
or_empty_raises(v) == v.t = "int" /\ v.n # 0
or_empty_upper(v) == IF v.t = "str" THEN str_upper(v.s) ELSE <<>>

\* A booking context: client and reservation are <<>> (None) or <<record>>.
EmptyCtx == [client |-> <<>>, reservation |-> <<>>]

\* should_offer_checkin_assets_auto without the test of the dates
should_offer_checkin_assets_auto_any_day(booking_ctx) ==
  IF booking_ctx.reservation = <<>> THEN "False"
  ELSE LET res == booking_ctx.reservation[1]
           d_start == _parse_ymd(res.start_date)
       IN  IF or_empty_raises(res.status) THEN "AttributeError"
           ELSE IF or_empty_upper(res.status) # S_CONFIRMED THEN "False"
           ELSE IF or_empty_raises(res.is_checkin_completed) THEN "AttributeError"
           ELSE IF or_empty_upper(res.is_checkin_completed) \notin {S_COMPLETED, S_VERIFIED}
                THEN "False"
           ELSE IF d_start = <<>> THEN "False"
           ELSE "True"

\* should_offer_checkin_assets_auto: "True", "False" or "AttributeError"
should_offer_checkin_assets_auto(booking_ctx) ==
  IF booking_ctx.reservation = <<>> THEN "False"
  ELSE LET res == booking_ctx.reservation[1]
           d_start == _parse_ymd(res.start_date)
           d_end == _parse_ymd(res.end_date)
       IN  IF or_empty_raises(res.status) THEN "AttributeError"
           ELSE IF or_empty_upper(res.status) # S_CONFIRMED THEN "False"
           ELSE IF or_empty_raises(res.is_checkin_completed) THEN "AttributeError"
           ELSE IF or_empty_upper(res.is_checkin_completed) \notin {S_COMPLETED, S_VERIFIED}
                THEN "False"
           ELSE IF d_start = <<>> THEN "False"
           ELSE IF Today = d_start[1] THEN "True"
           ELSE IF d_end # <<>> /\ d_start[1] <= Today /\ Today < d_end[1] THEN "True"
           ELSE "False"

\* explicit_access_request_blocked that blocks nothing
explicit_access_request_never_blocked(booking_ctx) ==
  IF booking_ctx.reservation = <<>> THEN "False"
  ELSE IF or_empty_raises(booking_ctx.reservation[1].is_checkin_completed)
       THEN "AttributeError" ELSE "False"

\* explicit_access_request_blocked: "True", "False" or "AttributeError"
explicit_access_request_blocked(booking_ctx) ==
  IF booking_ctx.reservation = <<>> THEN "False"
  ELSE LET res == booking_ctx.reservation[1] IN
       IF or_empty_raises(res.is_checkin_completed) THEN "AttributeError"
       ELSE IF or_empty_upper(res.is_checkin_completed) \in {S_TO_DO, <<"0">>, <<>>}
            THEN "True" ELSE "False"

\* ---------------------------------------------------------------- state

VARIABLES
  pol_pc,        \* policy evaluation: "raw", "normalized" or "evaluated"
  pol_raw,       \* the reservation as the booking service returned it (<<>>: none)
  pol_ctx,       \* the booking context built from it
  pol_auto,      \* result of should_offer_checkin_assets_auto, "" before the call
  pol_blocked    \* result of explicit_access_request_blocked, "" before the call

VARIABLES
  session_store, \* app.session_store: phone -> 0 (no entry) or the number of the
                 \* session dict it holds
  session_dicts, \* the session dicts, by number
  handler,       \* per thread: where its call of handle_incoming_message stands
  svc,           \* what the booking service holds: the clients and the reservations
  turn,          \* the last call of handle_incoming_message that returned
  turns,         \* how many messages have arrived
  overlaps,      \* how many of them arrived while a call was running
  log            \* the calls of handle_incoming_message that returned, in order

VARIABLES
  cb_token,      \* CiaoBookingClient._token: 0 is None, else the number of the token
  cb_token_exp,  \* CiaoBookingClient._token_exp
  now,           \* time.time()
  issued,        \* how many tokens the booking service has issued
  req            \* per thread: where its call of _request stands, and its counts

VARIABLES
  sel_held,      \* fallback search: the reservations the booking service holds
  sel_results    \* the resolutions made so far: the order of the rows and the pick

VARIABLES
  elapsed        \* seconds between the message of the last call that returned and
                 \* the caller's message before it

VARIABLES
  st_data,       \* _StateStore._data: key -> <<>> (no entry) or <<entry>>
  st_now,        \* time.time() as the store reads it
  st_calls,      \* how many calls of get, set and reset were made
  st_ret         \* the last call: its name, key, time and what it returned

pol_vars == <<pol_pc, pol_raw, pol_ctx, pol_auto, pol_blocked>>
dlg_vars == <<session_store, session_dicts, handler, svc, turn, turns, overlaps, log>>
auth_vars == <<cb_token, cb_token_exp, now, issued, req>>
sel_vars == <<sel_held, sel_results>>
top_vars == <<elapsed>>
st_vars == <<st_data, st_now, st_calls, st_ret>>
vars == <<pol_vars, dlg_vars, auth_vars, sel_vars, top_vars, st_vars>>

\* ---------------------------------------------------------------- policy specification

\* Bounds of the reservations the booking service may return.
MaxCode == 3
DaySpan == 1

P_CASA_MONIC == <<"C","a","s","a"," ","M","o","n","i","c">>

EnumCodes == {PyInt(k) : k \in 0..MaxCode}
RawStatus ==
  {PyNone, PyStr(S_CONFIRMED), PyStr(<<"c","o","n","f","i","r","m","e","d">>), PyStr(S_PENDING)} \cup EnumCodes
RawGuest == {PyInt(0), PyInt(1), PyStr(S_LEFT)}
RawCheckin ==
  {PyNone, PyStr(<<>>), PyStr(S_TO_DO), PyStr(S_COMPLETED), PyStr(S_VERIFIED),
   PyStr(<<"v","e","r","i","f","i","e","d">>), PyStr(<<"0">>), PyStr(<<"F","O","O">>)} \cup EnumCodes
RawDates ==
  {NoDate, BadDate, YmdT(Today)}
    \cup {Ymd(d) : d \in (Today - DaySpan)..(Today + DaySpan)}

PolicyReservations ==
  [id : {<<"1","2","3","4","5","6","7">>}, status : RawStatus, guest_status : RawGuest,
   is_checkin_completed : RawCheckin, start_date : RawDates, end_date : RawDates,
   property : {P_CASA_MONIC}, property_name : {<<>>}, client_id : {1}]

PolInit ==
  /\ pol_pc = "raw"
  /\ pol_raw \in {<<>>} \cup {<<r>> : r \in PolicyReservations}
  /\ pol_ctx = EmptyCtx
  /\ pol_auto = ""
  /\ pol_blocked = ""

\* CiaoBookingClient.get_booking_context attaches the reservation it found
\* after _normalize_reservation.
PolNormalize ==
  /\ pol_pc = "raw"
  /\ pol_ctx' = [client |-> <<>>,
                 reservation |-> IF pol_raw = <<>> THEN <<>>
                                 ELSE <<_normalize_reservation(pol_raw[1])>>]
  /\ pol_pc' = "normalized"
  /\ UNCHANGED <<pol_raw, pol_auto, pol_blocked>>
  /\ UNCHANGED <<dlg_vars, auth_vars, sel_vars, top_vars, st_vars>>

\* The two predicates of the disclosure policy applied to that context.
PolEvaluate ==
  /\ pol_pc = "normalized"
  /\ pol_auto' = should_offer_checkin_assets_auto(pol_ctx)
  /\ pol_blocked' = explicit_access_request_blocked(pol_ctx)
  /\ pol_pc' = "evaluated"
  /\ UNCHANGED <<pol_raw, pol_ctx>>
  /\ UNCHANGED <<dlg_vars, auth_vars, sel_vars, top_vars, st_vars>>

\* ---------------------------------------------------------------- knowledge base

\* DEFAULT_KB["videos"], in the order of the dict; "" is a property without video
KB_videos ==
  << <<<<"r","e","l","a","i","s"," ","d","e","l","l","rsquo","u","s","s","e","r","o">>, "https://youtube.com/shorts/XnBcl2T-ewM?feature=share">>,
     <<<<"c","a","s","a"," ","m","o","n","i","c">>, "https://youtube.com/shorts/YHX-7uT3itQ?feature=share">>,
     <<<<"b","e","l","l","e"," ","v","u","e">>, "https://youtube.com/shorts/1iqknGhIFEc?feature=share">>,
     <<<<"c","a","s","a"," ","d","i"," ","g","i","n","a">>, "https://youtube.com/shorts/Wi-mevoKB3w?feature=share">>,
     <<<<"v","i","l","l","i","n","o"," ","d","i"," ","m","o","n","i","c">>, "">> >>
\* DEFAULT_KB["corrente"]
KB_corrente ==
  << <<<<"c","a","s","a"," ","m","o","n","i","c">>, "https://youtube.com/shorts/UIozKt4ZrCk?feature=share">> >>
\* DEFAULT_KB["transfer_tariffe"]
KB_aeroporto_citta == 50
KB_citta_citta == 40

\* table.get(key) or None, "" standing for None
kb_get(table, key) ==
  IF \E i \in DOMAIN table : table[i][1] = key
  THEN table[CHOOSE i \in DOMAIN table : table[i][1] = key][2]
  ELSE ""

normalize_property_key(name) == str_lower(str_strip(name))
kb_video_for_property(name) == kb_get(KB_videos, normalize_property_key(name))
kb_power_video_for_property(name) == kb_get(KB_corrente, normalize_property_key(name))

VideoLinks == {KB_videos[i][2] : i \in DOMAIN KB_videos} \ {""}
PowerLinks == {KB_corrente[i][2] : i \in DOMAIN KB_corrente} \ {""}

\* ---------------------------------------------------------------- property helpers

\* ALIASES, in the order of the dict
ALIASES ==
  << <<<<"c","a","s","a"," ","m","o","n","i","c">>, {<<"c","a","s","a"," ","m","o","n","i","c">>, <<"m","o","n","i","c">>, <<"c","a","s","a"," ","d","i"," ","m","o","n","i","c">>, <<"v","i","l","l","i","n","o"," ","d","i"," ","m","o","n","i","c","?">>}>>,
     <<<<"r","e","l","a","i","s"," ","d","e","l","l","rsquo","u","s","s","e","r","o">>, {<<"r","e","l","a","i","s">>, <<"u","s","s","e","r","o">>, <<"r","e","l","a","i","s"," ","d","e","l","l","'","u","s","s","e","r","o">>, <<"r","e","l","a","i","s"," ","d","e","l","l","rsquo","u","s","s","e","r","o">>}>>,
     <<<<"b","e","l","l","e"," ","v","u","e">>, {<<"b","e","l","l","e"," ","v","u","e">>, <<"b","e","l","l","e","v","u","e">>}>>,
     <<<<"c","a","s","a"," ","d","i"," ","g","i","n","a">>, {<<"c","a","s","a"," ","d","i"," ","g","i","n","a">>, <<"g","i","n","a">>}>>,
     <<<<"v","i","l","l","i","n","o"," ","d","i"," ","m","o","n","i","c">>, {<<"v","i","l","l","i","n","o"," ","d","i"," ","m","o","n","i","c">>, <<"v","i","l","l","i","n","o"," ","m","o","n","i","c">>, <<"v","i","l","l","i","n","o">>}>> >>

\* extract_property_from_text: the first canonical name one of whose aliases
\* is in the text, then the first key of the videos that is; <<>> is None
extract_property_from_text(text) ==
  LET t == str_lower(text)
      hitA == {i \in DOMAIN ALIASES : any_in(ALIASES[i][2], t)}
      hitK == {i \in DOMAIN KB_videos : str_contains(KB_videos[i][1], t)}
  IN  IF hitA # {} THEN ALIASES[CHOOSE i \in hitA : \A j \in hitA : i <= j][1]
      ELSE IF hitK # {} THEN KB_videos[CHOOSE i \in hitK : \A j \in hitK : i <= j][1]
      ELSE <<>>

\* property_name_from_ctx: <<>> is None
property_name_from_ctx(booking_ctx) ==
  IF booking_ctx.reservation = <<>> THEN <<>>
  ELSE LET res == booking_ctx.reservation[1]
           prop == IF res.property # <<>> THEN res.property ELSE res.property_name
       IN  IF prop # <<>> THEN str_strip(prop) ELSE <<>>

\* ---------------------------------------------------------------- light intents

VIDEO_KEYWORDS ==
  {<<"v","i","d","e","o">>, <<"a","c","c","e","s","s","o">>, <<"c","o","d","i","c","e">>, <<"c","h","e","c","k","-","i","n">>, <<"c","h","e","c","k","i","n">>, <<"e","n","t","r","a","r","e">>, <<"s","e","l","f"," ","c","h","e","c","k">>}
POWER_KEYWORDS == {<<"c","o","r","r","e","n","t","e">>, <<"l","u","c","e">>, <<"e","l","e","t","t","r","i","c">>, <<"p","o","w","e","r">>}
TRANSFER_KEYWORDS == {<<"t","r","a","n","s","f","e","r">>, <<"t","a","x","i">>, <<"t","r","a","s","f","e","r">>, <<"t","r","a","s","p","o","r","t","o">>}
PARKING_KEYWORDS == {<<"p","a","r","c","h","e","g","g","i","o">>, <<"p","a","r","k">>, <<"a","u","t","o">>, <<"s","o","s","t","a">>}
YES_WORDS == {<<"s","i">>, <<"s","i_grave">>, <<"o","k">>, <<"v","a"," ","b","e","n","e">>, <<"c","e","r","t","o">>, <<"c","o","n","f","e","r","m","o">>, <<"y","e","s">>}
NO_WORDS == {<<"n","o">>, <<"n","o","n">>, <<"n","e","g","a","t","i","v","o">>}
GREETINGS == {<<"c","i","a","o">>, <<"b","u","o","n","g","i","o","r","n","o">>, <<"s","a","l","v","e">>, <<"h","e","y">>}

wants_video(text) == any_in(VIDEO_KEYWORDS, str_lower(text))
wants_power(text) == any_in(POWER_KEYWORDS, str_lower(text))
wants_transfer(text) == any_in(TRANSFER_KEYWORDS, str_lower(text))
wants_parking(text) == any_in(PARKING_KEYWORDS, str_lower(text))
is_yes(text) ==
  LET t == str_strip(str_lower(text))
  IN  \E w \in YES_WORDS : str_startswith(t, w) \/ t = w
is_no(text) ==
  LET t == str_strip(str_lower(text)) IN \E w \in NO_WORDS : t = w
is_greeting(text) == any_in(GREETINGS, str_lower(text))
is_reset(text) == str_lower(str_strip(text)) = <<"/","r","e","s","e","t">>

\* ---------------------------------------------------------------- regular expressions

\* \b before the word character at i, and after the word character at j
boundary_before(t, i) == i = 1 \/ t[i - 1] \notin WordChars
boundary_after(t, j) == j = Len(t) \/ t[j + 1] \notin WordChars
\* the length of the run of digits that starts at i
RECURSIVE digit_run(_, _)
digit_run(t, i) ==
  IF i <= Len(t) /\ t[i] \in Digits THEN 1 + digit_run(t, i + 1) ELSE 0
least(S) == CHOOSE i \in S : \A j \in S : i <= j

\* RES_ID_RE = \b(\d{7,12})\b
RES_ID_MIN == 7
RES_ID_MAX == 12
\* RES_ID_RE.search(text): group 1 of the leftmost match, <<>> when none
RES_ID_search(text) ==
  LET at == {i \in 1..Len(text) :
               /\ text[i] \in Digits
               /\ boundary_before(text, i)
               /\ digit_run(text, i) \in RES_ID_MIN..RES_ID_MAX
               /\ boundary_after(text, i + digit_run(text, i) - 1)}
  IN  IF at = {} THEN <<>>
      ELSE SubSeq(text, least(at), least(at) + digit_run(text, least(at)) - 1)

\* \bsiamo in (\d{1,2})\b, else \b(\d{1,2}) (persone|adulti|ospiti)\b, on the
\* lower-cased text: group 1, <<>> when neither matches
PEOPLE_WORDS == {<<"p","e","r","s","o","n","e">>, <<"a","d","u","l","t","i">>, <<"o","s","p","i","t","i">>}
transfer_people(t) ==
  LET pre == <<"s","i","a","m","o"," ","i","n"," ">>
      at1 == {i \in 1..Len(t) :
                /\ str_startswith(SubSeq(t, i, Len(t)), pre)
                /\ boundary_before(t, i)
                /\ digit_run(t, i + Len(pre)) \in 1..2
                /\ boundary_after(t, i + Len(pre) + digit_run(t, i + Len(pre)) - 1)}
      at2 == {i \in 1..Len(t) :
                /\ t[i] \in Digits
                /\ boundary_before(t, i)
                /\ digit_run(t, i) \in 1..2
                /\ \E w \in PEOPLE_WORDS :
                     LET j == i + digit_run(t, i)
                     IN  /\ str_startswith(SubSeq(t, j, Len(t)), <<" ">> \o w)
                         /\ boundary_after(t, j + Len(w))}
  IN  IF at1 # {}
      THEN SubSeq(t, least(at1) + Len(pre),
                  least(at1) + Len(pre) + digit_run(t, least(at1) + Len(pre)) - 1)
      ELSE IF at2 # {}
      THEN SubSeq(t, least(at2), least(at2) + digit_run(t, least(at2)) - 1)
      ELSE <<>>

\* \b(\d{1,2})[:\.](\d{2})\b on the text: "H:MM" of the leftmost match, <<>> when none
transfer_when(text) ==
  LET ok(i, n) ==
        /\ i + n + 2 <= Len(text)
        /\ \A k \in i..(i + n - 1) : text[k] \in Digits
        /\ text[i + n] \in {":", "."}
        /\ text[i + n + 1] \in Digits /\ text[i + n + 2] \in Digits
        /\ boundary_after(text, i + n + 2)
      at == {i \in 1..Len(text) :
               text[i] \in Digits /\ boundary_before(text, i) /\ (ok(i, 2) \/ ok(i, 1))}
      n0 == IF ok(least(at), 2) THEN 2 ELSE 1
  IN  IF at = {} THEN <<>>
      ELSE SubSeq(text, least(at), least(at) + n0 - 1) \o <<":">>
             \o SubSeq(text, least(at) + n0 + 1, least(at) + n0 + 2)

\* client_name.split()[0] of a name that is not blank
RECURSIVE until_space(_)
until_space(t) ==
  IF t = <<>> \/ Head(t) \in Whitespace THEN <<>> ELSE <<Head(t)>> \o until_space(Tail(t))
first_word(name) == until_space(str_lstrip(name))

\* ---------------------------------------------------------------- what a text says

\* Everything build_answer and get_booking_context compute from the text alone.
text_facts(text) ==
  [reset |-> is_reset(text), greeting |-> is_greeting(text),
   yes |-> is_yes(text), no |-> is_no(text),
   video |-> wants_video(text), power |-> wants_power(text),
   transfer |-> wants_transfer(text), parking |-> wants_parking(text),
   prop |-> extract_property_from_text(text), rid |-> RES_ID_search(text)]
\* The inbound texts of the specifications, with their facts computed once.
Messages ==
  {<<"/","r","e","s","e","t">>, <<"c","i","a","o">>, <<"v","i","d","e","o">>, <<"c","i","a","o",","," ","i","l"," ","v","i","d","e","o","?">>, <<"o","k"," ","v","i","d","e","o">>, <<"n","o">>,
   <<"l","u","c","e"," ","7","6","5","4","3","2","1">>, <<"v","i","d","e","o"," ","1","2","3","4","5","6","7">>, <<"g","r","a","z","i","e">>}
\* Texts about a transfer, the replies to its summary, a text that asks
\* for a secret, a greeting, and a text with a number of six digits.
TopicMessages ==
  {<<"t","a","x","i">>, <<"t","a","x","i"," ","d","a","l","l","'","a","e","r","o","p","o","r","t","o">>, <<"t","r","a","n","s","f","e","r"," ","a","e","r","o","p","o","r","t","o"," ","c","a","s","a"," ","m","o","n","i","c"," ","2"," ","p","e","r","s","o","n","e"," ","9",".","1","5">>,
   <<"s","i">>, <<"n","o">>, <<"v","i","d","e","o">>, <<"p","a","s","s","w","o","r","d"," ","t","a","x","i">>, <<"c","i","a","o">>, <<"p","a","r","c","h","e","g","g","i","o"," ","1","2","3","4","5","6">>}
MessageFacts == [text \in Messages \cup TopicMessages |-> text_facts(text)]
facts(text) == IF text \in DOMAIN MessageFacts THEN MessageFacts[text] ELSE text_facts(text)

\* ---------------------------------------------------------------- booking-service client

\* What a call of CiaoBookingClient._get ends with, for each endpoint: "ok",
\* or the exception _request lets through: "HTTPError" (raise_for_status, of
\* the request or of the login before it) or "Exception" (any other, such as
\* requests.ConnectionError).  A failure names the endpoints it hits.
NoFailure == [at |-> {}, kind |-> "ok", status |-> 200]
get_outcome(endpoint, fail) == IF endpoint \in fail.at THEN fail.kind ELSE "ok"

\* get_reservation: the service answers 404 for an id it does not hold
get_reservation(reservation_id, service, fail) ==
  LET hit == {i \in DOMAIN service.reservations : service.reservations[i].id = reservation_id}
      out == get_outcome("reservation", fail)
  IN  IF out = "HTTPError" /\ fail.status = 404 THEN [raised |-> FALSE, res |-> <<>>]
      ELSE IF out # "ok" THEN [raised |-> TRUE, res |-> <<>>]
      ELSE IF hit = {} THEN [raised |-> FALSE, res |-> <<>>]
      ELSE [raised |-> FALSE, res |-> <<service.reservations[least(hit)]>>]

\* the first row whose client id equals client_id (0 is None on either side)
pick_first(rows, client_id) ==
  LET hit == {i \in DOMAIN rows : rows[i].client_id = client_id}
  IN  IF hit = {} THEN <<>> ELSE <<rows[least(hit)]>>

\* CiaoBookingClient.get_booking_context whose fallback search lets its
\* exception through
CB_get_booking_context_fallback_raises(phone, reservation_id, service, fail) ==
  LET direct == IF reservation_id # <<>> THEN get_reservation(reservation_id, service, fail)
                ELSE [raised |-> FALSE, res |-> <<>>]
      res1 == IF direct.res # <<>> THEN <<_normalize_reservation(direct.res[1])>> ELSE <<>>
      searched == phone # <<>> /\ ~direct.raised
      search == get_outcome("clients", fail)
      client == IF searched /\ search = "ok" /\ service.clients # <<>>
                THEN <<service.clients[1]>> ELSE <<>>
      listed == res1 = <<>> /\ client # <<>>
      listing == get_outcome("reservations", fail)
      rows == IF listing = "ok" THEN service.reservations ELSE <<>>
      picked == pick_first(rows, client[1].id)
      res3 == IF listed /\ picked # <<>>
              THEN <<_normalize_reservation(picked[1])>> ELSE res1
      raised == \/ direct.raised \/ (searched /\ search = "Exception")
                \/ (listed /\ listing # "ok")
      errors ==
        {e \in {<<"reservation", get_outcome("reservation", fail)>>} :
           reservation_id # <<>> /\ e[2] # "ok"}
          \cup {e \in {<<"clients", search>>} : searched /\ e[2] # "ok"}
          \cup {e \in {<<"reservations", listing>>} : listed /\ e[2] # "ok"}
      lookups ==
        {e \in {"reservation"} : reservation_id # <<>>}
          \cup {e \in {"clients"} : searched}
          \cup {e \in {"reservations"} : listed}
  IN  [raised |-> raised,
       client |-> IF raised THEN <<>> ELSE client,
       reservation |-> IF raised THEN <<>> ELSE res3,
       errors |-> errors,
       lookups |-> lookups]

\* CiaoBookingClient.get_booking_context: the context, or the exception it
\* lets through; lookups are the calls it made of the booking service and
\* errors those of them that failed, as the log records them
CB_get_booking_context(phone, reservation_id, service, fail) ==
  LET direct == IF reservation_id # <<>> THEN get_reservation(reservation_id, service, fail)
                ELSE [raised |-> FALSE, res |-> <<>>]
      res1 == IF direct.res # <<>> THEN <<_normalize_reservation(direct.res[1])>> ELSE <<>>
      searched == phone # <<>> /\ ~direct.raised
      search == get_outcome("clients", fail)
      client == IF searched /\ search = "ok" /\ service.clients # <<>>
                THEN <<service.clients[1]>> ELSE <<>>
      listed == res1 = <<>> /\ client # <<>>
      listing == get_outcome("reservations", fail)
      rows == IF listing = "ok" THEN service.reservations ELSE <<>>
      picked == pick_first(rows, client[1].id)
      res3 == IF listed /\ picked # <<>>
              THEN <<_normalize_reservation(picked[1])>> ELSE res1
      raised == direct.raised \/ (searched /\ search = "Exception")
      errors ==
        {e \in {<<"reservation", get_outcome("reservation", fail)>>} :
           reservation_id # <<>> /\ e[2] # "ok"}
          \cup {e \in {<<"clients", search>>} : searched /\ e[2] # "ok"}
          \cup {e \in {<<"reservations", listing>>} : listed /\ e[2] # "ok"}
      lookups ==
        {e \in {"reservation"} : reservation_id # <<>>}
          \cup {e \in {"clients"} : searched}
          \cup {e \in {"reservations"} : listed}
  IN  [raised |-> raised,
       client |-> IF raised THEN <<>> ELSE client,
       reservation |-> IF raised THEN <<>> ELSE res3,
       errors |-> errors,
       lookups |-> lookups]

\* get_booking_context of app.py: the context with its "_lookup" record
\* ({} with the record when the client raised)
get_booking_context(phone, text, service, fail) ==
  LET reservation_id == facts(text).rid
      got == CB_get_booking_context(phone, reservation_id, service, fail)
  IN  [client |-> got.client,
       reservation |-> got.reservation,
       rid_tried |-> reservation_id,
       rid_found |-> reservation_id # <<>> /\ got.reservation # <<>>]

\* ---------------------------------------------------------------- replies

\* A reply: which text of build_answer it is, the strings and dates put into
\* it, the links it holds and the tariff (0 when none).
Reply(kind, args, dates, links, n) ==
  [kind |-> kind, args |-> args, dates |-> dates, links |-> links, n |-> n]
Say(kind) == Reply(kind, <<>>, <<>>, {}, 0)
\* the AttributeError of "".upper() on an int, in place of a reply
AttributeError == Say("AttributeError")

\* the TypeError of subscripting None, in place of a reply
TypeError == Say("TypeError")

\* Where build_answer stands after a step: the answer it has made up so far,
\* the session dict as the step left it, whether the step popped the
\* caller's entry of session_store, and the line of its next access to the
\* session (0: it has returned, or raised).
Built(answer, session, pop, at) ==
  [answer |-> answer, session |-> session, pop |-> pop, at |-> at]

PROPERTY_LABELS ==
  << <<<<"c","a","s","a"," ","m","o","n","i","c">>, <<"C","a","s","a"," ","M","o","n","i","c">>>>,
     <<<<"r","e","l","a","i","s"," ","d","e","l","l","rsquo","u","s","s","e","r","o">>, <<"R","e","l","a","i","s"," ","d","e","l","l","rsquo","U","s","s","e","r","o">>>>,
     <<<<"b","e","l","l","e"," ","v","u","e">>, <<"B","e","l","l","e"," ","V","u","e">>>>,
     <<<<"c","a","s","a"," ","d","i"," ","g","i","n","a">>, <<"C","a","s","a"," ","d","i"," ","G","i","n","a">>>>,
     <<<<"v","i","l","l","i","n","o"," ","d","i"," ","m","o","n","i","c">>, <<"V","i","l","l","i","n","o"," ","d","i"," ","M","o","n","i","c">>>> >>

\* branch 3 of build_answer: the transfer summary
transfer_answer(text, prop) ==
  LET t == str_lower(text)
      people == transfer_people(t)
      when == transfer_when(text)
      src == IF str_contains(<<"a","e","r","o","p","o","r","t","o">>, t) THEN <<"a","e","r","o","p","o","r","t","o">> ELSE <<>>
      key == normalize_property_key(prop)
      dst == IF prop = <<>> THEN <<>>
             ELSE IF \E i \in DOMAIN PROPERTY_LABELS : PROPERTY_LABELS[i][1] = key
             THEN PROPERTY_LABELS[CHOOSE i \in DOMAIN PROPERTY_LABELS :
                                    PROPERTY_LABELS[i][1] = key][2]
             ELSE prop
      tariffa == IF src # <<>> /\ dst # <<>> /\ str_contains(<<"a","e","r","o","p","o","r","t","o">>, src)
                 THEN KB_aeroporto_citta
                 ELSE IF src # <<>> \/ dst # <<>> THEN KB_citta_citta ELSE 0
  IN  Reply("transfer_summary", <<people, when, src, dst>>, <<>>, {}, tariffa)

\* branch 1 of build_answer, the property known: an explicit request for the
\* video or the power
explicit_answer(text, booking_ctx, prop) ==
  IF explicit_access_request_blocked(booking_ctx) = "AttributeError" THEN AttributeError
  ELSE IF explicit_access_request_blocked(booking_ctx) = "True" THEN Say("verify_documents")
  ELSE IF facts(text).power
  THEN IF kb_power_video_for_property(prop) # ""
       THEN Reply("power_link", <<prop>>, <<>>, {kb_power_video_for_property(prop)}, 0)
       ELSE Say("power_generic")
  ELSE IF kb_video_for_property(prop) # ""
       THEN Reply("video_link", <<prop>>, <<>>, {kb_video_for_property(prop)}, 0)
       ELSE Say("video_unknown")

\* the answer to a "yes" while a confirmation is pending, from the pending
\* confirmation as line 269 read it
confirm_answer(booking_ctx, session) ==
  LET prop == session.pending_confirm[1].prop
      chk == booking_ctx.reservation[1].is_checkin_completed
      verified == /\ booking_ctx.reservation # <<>>
                  /\ or_empty_upper(chk) \in {S_COMPLETED, S_VERIFIED}
  IN  IF booking_ctx.reservation # <<>> /\ or_empty_raises(chk) THEN AttributeError
      ELSE IF verified
      THEN Reply("confirmed_links", <<prop>>, <<>>,
                 {kb_video_for_property(prop), kb_power_video_for_property(prop)} \ {""}, 0)
      ELSE Reply("confirmed_verify_documents", <<prop>>, <<>>, {}, 0)

\* build_answer from line at (238: its entry) up to and including its next
\* access to the session dict or to session_store.  The accesses are
\* separate statements of a function that holds no lock: the pop of line
\* 241, the stores of lines 254 and 260, the read of line 266, the store of
\* 268, the read of 269, the stores of 292, 295 and 296, the reads of 318
\* and 319.  answer is what the steps before have made up.
build_answer(phone, text, booking_ctx, session, at, answer) ==
  LET return(reply) == Built(reply, session, FALSE, 0)
      goto(line) == Built(answer, session, FALSE, line)
      client_name == IF booking_ctx.client = <<>> THEN <<>>
                     ELSE str_strip(booking_ctx.client[1].name)
      prop_from_ctx == property_name_from_ctx(booking_ctx)
      prop_from_text == facts(text).prop
      prop == IF prop_from_ctx # <<>> THEN prop_from_ctx ELSE prop_from_text
      auto == should_offer_checkin_assets_auto(booking_ctx)
  IN  CASE at = 238 ->
             IF facts(text).reset THEN Built(Say("reset"), session, TRUE, 0)
             ELSE IF facts(text).greeting /\ client_name # <<>> THEN
               IF booking_ctx.reservation # <<>> /\ prop_from_ctx # <<>>
               THEN LET res == booking_ctx.reservation[1]
                        start == date_prefix(res.start_date)
                        end == date_prefix(res.end_date)
                    IN  Built(Reply("greeting_confirm",
                                    <<first_word(client_name), prop_from_ctx>>,
                                    <<start, end>>, {}, 0),
                              [session EXCEPT !.pending_confirm =
                                 <<[prop |-> prop_from_ctx, start |-> start, end |-> end,
                                    reservation_id |-> res.id]>>],
                              FALSE, 260)
               ELSE return(Reply("greeting", <<first_word(client_name)>>, <<>>, {}, 0))
             ELSE IF session.pending_confirm # <<>> /\ facts(text).yes THEN goto(268)
             ELSE IF session.pending_confirm # <<>> /\ facts(text).no THEN goto(295)
             ELSE IF booking_ctx.rid_tried # <<>> /\ ~booking_ctx.rid_found THEN
               return(Reply("reservation_not_found", <<booking_ctx.rid_tried>>, <<>>, {}, 0))
             ELSE IF facts(text).video \/ facts(text).power THEN
               IF prop = <<>> THEN goto(318)
               ELSE return(explicit_answer(text, booking_ctx, prop))
             ELSE IF auto = "AttributeError" THEN return(AttributeError)
             ELSE IF auto = "True" /\ prop # <<>> THEN
               return(Reply("welcome", <<prop>>, <<>>,
                            {kb_video_for_property(prop), kb_power_video_for_property(prop)}
                              \ {""}, 0))
             ELSE IF facts(text).transfer THEN return(transfer_answer(text, prop))
             ELSE IF facts(text).parking THEN
               return(IF prop = <<>> THEN Say("parking_ask_property")
                      ELSE Reply("parking", <<prop>>, <<>>, {}, 0))
             ELSE return(Say("llm"))
        [] at = 260 ->
             Built(answer, [session EXCEPT !.reservation_confirmed = FALSE], FALSE, 0)
        [] at = 268 ->
             Built(answer, [session EXCEPT !.reservation_confirmed = TRUE], FALSE, 269)
        [] at = 269 ->
             IF session.pending_confirm = <<>> THEN return(TypeError)
             ELSE IF confirm_answer(booking_ctx, session) = AttributeError
             THEN return(AttributeError)
             ELSE Built(confirm_answer(booking_ctx, session), session, FALSE, 292)
        [] at = 292 ->
             Built(answer, [session EXCEPT !.pending_confirm = <<>>], FALSE, 0)
        [] at = 295 ->
             Built(Say("ask_property_after_no"),
                   [session EXCEPT !.pending_confirm = <<>>], FALSE, 296)
        [] at = 296 ->
             Built(answer, [session EXCEPT !.reservation_confirmed = FALSE], FALSE, 0)
        [] at = 318 ->
             IF session.pending_confirm # <<>> THEN goto(319) ELSE return(Say("ask_property"))
        [] at = 319 ->
             IF session.pending_confirm = <<>> THEN return(TypeError)
             ELSE return(Reply("reconfirm", <<session.pending_confirm[1].prop>>,
                               <<session.pending_confirm[1].start,
                                 session.pending_confirm[1].end>>, {}, 0))

\* ---------------------------------------------------------------- handle_incoming_message

MAX_MESSAGES == 12
\* clamp_history that keeps the oldest entries: history[:max_messages]
clamp_history_keeps_oldest(history) ==
  IF Len(history) <= MAX_MESSAGES THEN history ELSE SubSeq(history, 1, MAX_MESSAGES)

\* clamp_history of app.py: history[-max_messages:]
clamp_history(history) ==
  IF Len(history) <= MAX_MESSAGES THEN history
  ELSE SubSeq(history, Len(history) - MAX_MESSAGES + 1, Len(history))

\* The default of session_store.setdefault (created_at, a timestamp that is
\* written once and never read, is left out).
NewSession ==
  [history |-> <<>>, booking_ctx |-> <<>>, pending_confirm |-> <<>>,
   reservation_confirmed |-> FALSE]

UserEntry(text) == [role |-> "user", text |-> text, answer |-> Say("")]
AssistantEntry(answer) == [role |-> "assistant", text |-> <<>>, answer |-> answer]

\* handle_incoming_message stores the booking context of its message
session_with_ctx(session, booking_ctx) == [session EXCEPT !.booking_ctx = <<booking_ctx>>]

\* ---------------------------------------------------------------- dialogue specification

MaxTurns == 2
MaxOverlaps == 1

PHONE_A == <<"3","9","3","4","7","0","0","0","0","0","0","1">>
PHONE_B == <<"3","9","3","4","7","0","0","0","0","0","0","2">>
RID_KNOWN == <<"1","2","3","4","5","6","7">>

R_TODO ==
  [id |-> RID_KNOWN, status |-> PyInt(2), guest_status |-> PyInt(0),
   is_checkin_completed |-> PyInt(0), start_date |-> Ymd(Today),
   end_date |-> Ymd(Today + 2), property |-> P_CASA_MONIC, property_name |-> <<>>,
   client_id |-> 1]
R_TODO_NOPROP == [R_TODO EXCEPT !.property = <<>>]
R_VERIFIED ==
  [R_TODO EXCEPT !.is_checkin_completed = PyInt(2), !.guest_status = PyInt(1),
                 !.start_date = YmdT(Today - 1), !.end_date = YmdT(Today + 1)]
R_UNKNOWN_CODE == [R_TODO EXCEPT !.is_checkin_completed = PyInt(7)]

DialogueReservations == {R_TODO, R_TODO_NOPROP, R_VERIFIED, R_UNKNOWN_CODE}
DialogueClients == {[id |-> 1, name |-> <<"M","a","r","i","o"," ","R","o","s","s","i">>]}
Services ==
  [clients : {<<>>} \cup {<<c>> : c \in DialogueClients},
   reservations : {<<>>} \cup {<<r>> : r \in DialogueReservations}]

Failures ==
  {NoFailure}
    \cup [at : {{"reservation"}, {"clients"}, {"reservations"},
                {"reservation", "clients", "reservations"}},
          kind : {"HTTPError", "Exception"}, status : {500}]

\* The record of a call of handle_incoming_message: n is the number of its
\* message in the order of arrival, gap the seconds since the message before
\* it, session the dict
\* as setdefault returned it, seen the dict as build_answer got it, at the
\* line build_answer goes on from, history the list built from the history
\* read, session_end the dict when the call returned.
NoCall ==
  [n |-> 0, phone |-> <<>>, text |-> <<>>, gap |-> 0,
   errors |-> {}, lookups |-> {}, session |-> NewSession, seen |-> NewSession,
   session_end |-> NewSession, history |-> <<>>, at |-> 238,
   booking_ctx |-> get_booking_context(<<>>, <<>>, [clients |-> <<>>, reservations |-> <<>>],
                                       NoFailure),
   answer |-> Say(""), raised |-> FALSE]

\* the threads of the server: app.run is threaded
Threads == {1, 2}

\* A thread of the server outside handle_incoming_message, and the numbers
\* of the session dicts: the store holds one per caller, and a running call
\* may hold one the store has dropped.
NoHandler == [pc |-> "idle", ref |-> 0, call |-> NoCall]
Dicts == 1..(Cardinality({PHONE_A, PHONE_B}) + Cardinality(Threads) - 1)
\* what the log keeps of a call that returned
Logged(call) ==
  [phone |-> call.phone, text |-> call.text, answer |-> call.answer, raised |-> call.raised]

\* the dicts that session_store or a running call refers to
referenced(store, handlers) ==
  {store[p] : p \in DOMAIN store} \cup {handlers[t].ref : t \in DOMAIN handlers}
\* a dict nothing refers to is gone: its number stands for a new dict
collect(dicts, store, handlers) ==
  [d \in DOMAIN dicts |-> IF d \in referenced(store, handlers) THEN dicts[d] ELSE NewSession]
\* no call of handle_incoming_message is running
Quiet == \A t \in Threads : handler[t].pc = "idle"
\* requests are served by whichever thread is free; MaxOverlaps bounds how
\* many of them arrive while a call is running
free(t) ==
  /\ handler[t].pc = "idle" /\ \A u \in Threads : u < t => handler[u].pc # "idle"
  /\ Quiet \/ overlaps < MaxOverlaps

DlgInit ==
  /\ session_store = [p \in {PHONE_A} |-> 0]
  /\ session_dicts = [d \in Dicts |-> NewSession]
  /\ handler = [t \in Threads |-> NoHandler]
  /\ svc \in Services
  /\ turn = NoCall
  /\ turns = 0
  /\ overlaps = 0
  /\ log = <<>>

\* handle_incoming_message is entered with a message and runs
\* session_store.setdefault(phone, {...}): the dict under the key, a new one
\* when there is none.
setdefault(t, phone, text, gap) ==
  /\ free(t)
  /\ \E ref \in {IF session_store[phone] # 0 THEN session_store[phone]
                  ELSE CHOOSE d \in Dicts :
                         /\ d \notin referenced(session_store, handler)
                         /\ \A e \in Dicts : e < d => e \in referenced(session_store, handler)} :
       /\ session_store' = [session_store EXCEPT ![phone] = ref]
       /\ handler' = [handler EXCEPT ![t] =
                        [pc |-> "lookup", ref |-> ref,
                         call |-> [NoCall EXCEPT !.n = turns + 1, !.phone = phone,
                                                 !.text = text, !.gap = gap,
                                                 !.session = session_dicts[ref]]]]
  /\ turns' = turns + 1
  /\ overlaps' = IF Quiet THEN overlaps ELSE overlaps + 1
  /\ UNCHANGED <<session_dicts, svc, turn, log, elapsed>>

\* One inbound message enters handle_incoming_message (webhook and test_api
\* strip the body).
HandleMessage(t) ==
  /\ turns < MaxTurns
  /\ \E phone \in DOMAIN session_store, text \in Messages :
       setdefault(t, phone, text, 0)
  /\ UNCHANGED <<pol_vars, auth_vars, sel_vars, st_vars>>

\* booking_ctx = get_booking_context(phone, text), which waits for the
\* booking service (it answers, or fails as one of failures says), then
\* session["booking_ctx"] = booking_ctx
Lookup(t, failures) ==
  /\ handler[t].pc = "lookup"
  /\ \E me \in {handler[t].call}, fail \in failures :
     \E got \in {CB_get_booking_context(me.phone, facts(me.text).rid, svc, fail)} :
     \E booking_ctx \in {get_booking_context(me.phone, me.text, svc, fail)} :
       /\ session_dicts' = [session_dicts EXCEPT ![handler[t].ref] =
                               session_with_ctx(@, booking_ctx)]
       /\ handler' = [handler EXCEPT
                        ![t].pc = "build",
                        ![t].call = [me EXCEPT !.booking_ctx = booking_ctx,
                                               !.errors = got.errors,
                                               !.lookups = got.lookups]]
  /\ UNCHANGED <<session_store, svc, turn, turns, overlaps, log, elapsed>>
  /\ UNCHANGED <<pol_vars, auth_vars, sel_vars, st_vars>>

\* answer = build_answer(phone, text, booking_ctx, session), one access to
\* the session at a time: it reads and writes pending_confirm and
\* reservation_confirmed of the dict it was given and, on a reset, pops
\* whatever session_store holds under the key; where it ends in call_llm it
\* waits for the answer with nothing left to read or write.  An exception
\* ends the call before the history is touched.
BuildAnswer(t) ==
  /\ handler[t].pc = "build"
  /\ \E me \in {handler[t].call}, ref \in {handler[t].ref} :
     \E built \in {build_answer(me.phone, me.text, me.booking_ctx, session_dicts[ref],
                                me.at, me.answer)} :
     \E raised \in {built.at = 0 /\ built.answer \in {AttributeError, TypeError}} :
     \E dicts \in {[session_dicts EXCEPT ![ref] = built.session]} :
     \E store \in {IF built.pop THEN [session_store EXCEPT ![me.phone] = 0]
                    ELSE session_store} :
     \E call \in {[me EXCEPT !.seen = IF me.at = 238 THEN session_dicts[ref] ELSE @,
                              !.answer = built.answer, !.at = built.at,
                              !.raised = raised, !.session_end = dicts[ref]]} :
     \E handlers \in {[handler EXCEPT ![t] =
                         IF raised THEN NoHandler
                         ELSE [pc |-> IF built.at = 0 THEN "read" ELSE "build",
                               ref |-> ref, call |-> call]]} :
       /\ session_store' = store
       /\ handler' = handlers
       /\ session_dicts' = collect(dicts, store, handlers)
       /\ turn' = IF raised THEN call ELSE turn
       /\ log' = IF raised THEN Append(log, Logged(call)) ELSE log
       /\ elapsed' = IF raised THEN me.gap ELSE elapsed
  /\ UNCHANGED <<svc, turns, overlaps>>
  /\ UNCHANGED <<pol_vars, auth_vars, sel_vars, st_vars>>

\* session["history"] + [user entry, assistant entry]: the list is read and
\* a new list is built from it
ReadHistory(t) ==
  /\ handler[t].pc = "read"
  /\ handler' = [handler EXCEPT
                   ![t].pc = "write",
                   ![t].call.history =
                      session_dicts[handler[t].ref].history
                        \o <<UserEntry(handler[t].call.text),
                             AssistantEntry(handler[t].call.answer)>>]
  /\ UNCHANGED <<session_store, session_dicts, svc, turn, turns, overlaps, log, elapsed>>
  /\ UNCHANGED <<pol_vars, auth_vars, sel_vars, st_vars>>

\* session["history"] = clamp_history(...): the new list is stored, and the
\* call returns the answer
WriteHistory(t) ==
  /\ handler[t].pc = "write"
  /\ \E me \in {handler[t].call}, ref \in {handler[t].ref} :
     \E dicts \in {[session_dicts EXCEPT ![ref].history = clamp_history(me.history)]} :
     \E handlers \in {[handler EXCEPT ![t] = NoHandler]} :
       /\ handler' = handlers
       /\ session_dicts' = collect(dicts, session_store, handlers)
       /\ turn' = [me EXCEPT !.session_end = dicts[ref]]
       /\ log' = Append(log, Logged(me))
       /\ elapsed' = me.gap
  /\ UNCHANGED <<session_store, svc, turns, overlaps>>
  /\ UNCHANGED <<pol_vars, auth_vars, sel_vars, st_vars>>

\* ---------------------------------------------------------------- token lifecycle

\* _login: the fallback lifetime of a token, and _ensure_token: the margin
TOKEN_LIFETIME == 3000
EXPIRY_MARGIN == 60

\* Bounds: the threads' calls of _request, the clock and its step, and the
\* lifetime the service may state itself in "expires_at".
MaxCalls == 1
MaxNow == 2940
ClockStep == 1470
ServiceLifetime == 1500

\* the statuses the booking service answers a request with
Statuses == {200, 401, 404, 500}

\* A thread outside _request: nothing counted.  In a call: attempts are the
\* requests sent, logins the calls of _login, relogins those made after a
\* 401 (relogged: that login returned), first and last are the statuses of
\* the first and the latest response (0: none), seen_now the clock as
\* _ensure_token read it, pending and pending_exp the token and the expiry
\* of the login in flight, result how the call ended.
Idle(calls) ==
  [pc |-> "idle", calls |-> calls, attempts |-> 0, logins |-> 0, relogins |-> 0,
   relogged |-> FALSE, first |-> 0, last |-> 0, seen_now |-> 0,
   pending |-> 0, pending_exp |-> 0, result |-> ""]

AuthInit ==
  /\ cb_token = 0
  /\ cb_token_exp = 0
  /\ now = 0
  /\ issued = 0
  /\ req = [t \in Threads |-> Idle(0)]

\* A thread enters _request.
Call(t) ==
  /\ req[t].pc = "idle" /\ req[t].calls < MaxCalls
  /\ req' = [req EXCEPT ![t] = [Idle(@.calls + 1) EXCEPT !.pc = "ensure"]]
  /\ UNCHANGED <<cb_token, cb_token_exp, now, issued>>
  /\ UNCHANGED <<pol_vars, dlg_vars, sel_vars, top_vars, st_vars>>

\* _ensure_token is "if not self._token or time.time() >= (self._token_exp -
\* 60): self._login()".  The client is shared by the threads and holds no
\* lock: the token, the clock and the expiry are read one after the other,
\* and another thread's _login may store between two of the reads.

\* _ensure_token reads self._token: with none it calls _login.
EnsureToken(t) ==
  /\ req[t].pc = "ensure"
  /\ req' = [req EXCEPT ![t].pc = IF cb_token = 0 THEN "login" ELSE "ensure_clock"]
  /\ UNCHANGED <<cb_token, cb_token_exp, now, issued>>
  /\ UNCHANGED <<pol_vars, dlg_vars, sel_vars, top_vars, st_vars>>

\* _ensure_token reads the clock.
EnsureClock(t) ==
  /\ req[t].pc = "ensure_clock"
  /\ req' = [req EXCEPT ![t].pc = "ensure_exp", ![t].seen_now = now]
  /\ UNCHANGED <<cb_token, cb_token_exp, now, issued>>
  /\ UNCHANGED <<pol_vars, dlg_vars, sel_vars, top_vars, st_vars>>

\* _ensure_token reads self._token_exp and compares: it calls _login or
\* goes on to the request.
EnsureExpiry(t) ==
  /\ req[t].pc = "ensure_exp"
  /\ req' = [req EXCEPT ![t].pc =
               IF req[t].seen_now >= cb_token_exp - EXPIRY_MARGIN THEN "login" ELSE "send"]
  /\ UNCHANGED <<cb_token, cb_token_exp, now, issued>>
  /\ UNCHANGED <<pol_vars, dlg_vars, sel_vars, top_vars, st_vars>>

\* _login posts the credentials; the service issues its next token, with or
\* without a numeric "expires_at" (or answers without a token at all).
LoginPost(t) ==
  /\ req[t].pc \in {"login", "relogin"}
  /\ \E has_token \in BOOLEAN, expires_at \in {0, now + ServiceLifetime} :
       /\ issued' = IF has_token THEN issued + 1 ELSE issued
       /\ req' = [req EXCEPT
                    ![t].pc = IF @ = "login" THEN "login_wait" ELSE "relogin_wait",
                    ![t].logins = @ + 1,
                    ![t].relogins = IF req[t].pc = "relogin" THEN @ + 1 ELSE @,
                    ![t].pending = IF has_token THEN issued + 1 ELSE 0,
                    ![t].pending_exp = expires_at]
  /\ UNCHANGED <<cb_token, cb_token_exp, now>>
  /\ UNCHANGED <<pol_vars, dlg_vars, sel_vars, top_vars, st_vars>>

\* The login response arrives: _login stores the token.  The expiry is
\* stored by a later statement.
LoginDone(t) ==
  /\ req[t].pc \in {"login_wait", "relogin_wait"}
  /\ cb_token' = req[t].pending
  /\ req' = [req EXCEPT ![t].pc = IF req[t].pending_exp # 0 THEN "store_exp"
                                  ELSE "store_clock",
                        ![t].pending = 0]
  /\ UNCHANGED <<cb_token_exp, now, issued>>
  /\ UNCHANGED <<pol_vars, dlg_vars, sel_vars, top_vars, st_vars>>

\* The response held no numeric "expires_at": _login reads the clock and
\* adds 50 minutes.
LoginClock(t) ==
  /\ req[t].pc = "store_clock"
  /\ req' = [req EXCEPT ![t].pc = "store_exp", ![t].pending_exp = now + TOKEN_LIFETIME]
  /\ UNCHANGED <<cb_token, cb_token_exp, now, issued>>
  /\ UNCHANGED <<pol_vars, dlg_vars, sel_vars, top_vars, st_vars>>

\* _login stores the expiry and returns: to the first request from
\* _ensure_token, to the retry after a 401.
LoginExpiry(t) ==
  /\ req[t].pc = "store_exp"
  /\ cb_token_exp' = req[t].pending_exp
  /\ req' = [req EXCEPT ![t].pc = IF req[t].relogins = 0 THEN "send" ELSE "resend",
                        ![t].relogged = (req[t].relogins # 0),
                        ![t].pending_exp = 0]
  /\ UNCHANGED <<cb_token, now, issued>>
  /\ UNCHANGED <<pol_vars, dlg_vars, sel_vars, top_vars, st_vars>>

\* The login fails (raise_for_status, or a transport error): _login raises
\* and _request lets the exception through.
LoginFail(t) ==
  /\ req[t].pc \in {"login_wait", "relogin_wait"}
  /\ req' = [req EXCEPT ![t].pc = "done", ![t].result = "raised",
                        ![t].pending = 0, ![t].pending_exp = 0]
  /\ UNCHANGED <<cb_token, cb_token_exp, now, issued>>
  /\ UNCHANGED <<pol_vars, dlg_vars, sel_vars, top_vars, st_vars>>

\* The first request is sent and answered: a 401 leads to _login, any other
\* status to raise_for_status.
Send(t) ==
  /\ req[t].pc = "send"
  /\ \E status \in Statuses :
       req' = [req EXCEPT
                 ![t].attempts = @ + 1,
                 ![t].first = status,
                 ![t].last = status,
                 ![t].pc = IF status = 401 THEN "relogin" ELSE "done",
                 ![t].result = IF status = 401 THEN ""
                               ELSE IF status = 200 THEN "returned" ELSE "raised"]
  /\ UNCHANGED <<cb_token, cb_token_exp, now, issued>>
  /\ UNCHANGED <<pol_vars, dlg_vars, sel_vars, top_vars, st_vars>>

\* Resend with the bug of a loop: a second 401 leads to _login again.
Resend_loops(t) ==
  /\ req[t].pc = "resend"
  /\ \E status \in Statuses :
       req' = [req EXCEPT
                 ![t].attempts = @ + 1,
                 ![t].last = status,
                 ![t].pc = IF status = 401 THEN "relogin" ELSE "done",
                 ![t].result = IF status = 401 THEN ""
                               ELSE IF status = 200 THEN "returned" ELSE "raised"]
  /\ UNCHANGED <<cb_token, cb_token_exp, now, issued>>
  /\ UNCHANGED <<pol_vars, dlg_vars, sel_vars, top_vars, st_vars>>

\* The request is sent again after the login and answered; raise_for_status
\* decides, whatever the status.
Resend(t) ==
  /\ req[t].pc = "resend"
  /\ \E status \in Statuses :
       req' = [req EXCEPT
                 ![t].attempts = @ + 1,
                 ![t].last = status,
                 ![t].pc = "done",
                 ![t].result = IF status = 200 THEN "returned" ELSE "raised"]
  /\ UNCHANGED <<cb_token, cb_token_exp, now, issued>>
  /\ UNCHANGED <<pol_vars, dlg_vars, sel_vars, top_vars, st_vars>>

\* A request that gets no response (timeout, connection error): the exception
\* leaves _request.
SendFails(t) ==
  /\ req[t].pc \in {"send", "resend"}
  /\ req' = [req EXCEPT ![t].attempts = @ + 1, ![t].pc = "done", ![t].result = "raised",
                        ![t].last = 0]
  /\ UNCHANGED <<cb_token, cb_token_exp, now, issued>>
  /\ UNCHANGED <<pol_vars, dlg_vars, sel_vars, top_vars, st_vars>>

\* _request is left; the thread may call again.
Return(t) ==
  /\ req[t].pc = "done"
  /\ req' = [req EXCEPT ![t] = Idle(@.calls)]
  /\ UNCHANGED <<cb_token, cb_token_exp, now, issued>>
  /\ UNCHANGED <<pol_vars, dlg_vars, sel_vars, top_vars, st_vars>>

\* Time passes.
Tick ==
  /\ now + ClockStep <= MaxNow
  /\ now' = now + ClockStep
  /\ UNCHANGED <<cb_token, cb_token_exp, issued, req>>
  /\ UNCHANGED <<pol_vars, dlg_vars, sel_vars, top_vars, st_vars>>


\* ---------------------------------------------------------------- two callers

\* The messages of two callers, each thread of the server handling up to
\* MaxHandled of them.

MaxHandled == 1

ConcPhones == {PHONE_A, PHONE_B}
ConcMessages == {<<"/","r","e","s","e","t">>, <<"c","i","a","o">>, <<"v","i","d","e","o">>, <<"n","o">>}
ConcService == [clients |-> <<[id |-> 1, name |-> <<"M","a","r","i","o"," ","R","o","s","s","i">>]>>, reservations |-> <<R_TODO>>]

ConcInit ==
  /\ session_store = [p \in ConcPhones |-> 0]
  /\ session_dicts = [d \in Dicts |-> NewSession]
  /\ handler = [t \in Threads |-> NoHandler]
  /\ svc = ConcService
  /\ turn = NoCall
  /\ turns = 0
  /\ overlaps = 0
  /\ log = <<>>

\* One inbound message of one of the callers enters handle_incoming_message.
HandleConcurrent(t) ==
  /\ turns < MaxHandled * Cardinality(Threads)
  /\ \E phone \in ConcPhones, text \in ConcMessages : setdefault(t, phone, text, 0)
  /\ UNCHANGED <<pol_vars, auth_vars, sel_vars, st_vars>>

\* ---------------------------------------------------------------- fallback search

\* CiaoBookingClient.get_booking_context for a caller whose message names no
\* reservation: the client is found by the phone, and the reservation is
\* picked among the rows /api/public/reservations returns.  The service
\* returns the rows it holds in an order of its own.

MaxRows == 3
MaxResolutions == 2

SelClient == [id |-> 1, name |-> <<"M","a","r","i","o"," ","R","o","s","s","i">>]
\* a row of /api/public/reservations: status code, client and dates
SelRow(id, status, client_id, start, end) ==
  [R_TODO EXCEPT !.id = id, !.status = PyInt(status), !.client_id = client_id,
                 !.start_date = Ymd(start), !.end_date = Ymd(end)]
\* of the client: in-stay, future, past and a pending one that begins today;
\* the in-stay reservation of another client
SelCandidates ==
  {SelRow(<<"2","0","0","0","0","0","1">>, 2, 1, Today - 1, Today + 1),
   SelRow(<<"2","0","0","0","0","0","2">>, 2, 1, Today + 3, Today + 5),
   SelRow(<<"2","0","0","0","0","0","3">>, 2, 1, Today - 5, Today - 3),
   SelRow(<<"2","0","0","0","0","0","4">>, 3, 1, Today, Today + 2),
   SelRow(<<"2","0","0","0","0","0","5">>, 2, 2, Today - 1, Today + 1),
   \* a reservation with no client reference
   SelRow(<<"2","0","0","0","0","0","6">>, 2, 0, Today - 1, Today + 1)}

\* the orders in which the rows of a set can be returned
Orderings(rows) ==
  {order \in [1..Cardinality(rows) -> rows] : {order[i] : i \in DOMAIN order} = rows}

SelInit ==
  /\ sel_held \in {rows \in SUBSET SelCandidates :
                     Cardinality(rows) >= 1 /\ Cardinality(rows) <= MaxRows}
  /\ sel_results = <<>>

\* One resolution: get_booking_context(phone, None) against the service,
\* whose record of the caller has an id or (id 0) has none.
SelResolve ==
  /\ Len(sel_results) < MaxResolutions
  /\ \E order \in Orderings(sel_held), client \in {SelClient, [SelClient EXCEPT !.id = 0]} :
       \E got \in {CB_get_booking_context(PHONE_A, <<>>,
                     [clients |-> <<client>>, reservations |-> order], NoFailure)} :
         sel_results' = Append(sel_results, [order |-> order, client |-> client,
                                             picked |-> got.reservation])
  /\ UNCHANGED sel_held
  /\ UNCHANGED <<pol_vars, dlg_vars, auth_vars, top_vars, st_vars>>

\* ---------------------------------------------------------------- topics and time

\* The dialogue of one caller on the transfer, with the time that passes
\* between the messages.  handle_incoming_message reads no clock: app.py keeps
\* its sessions in the dict session_store, and the _StateStore of state.py,
\* which stamps an expiry on its entries, is imported by no module.

MaxTopicTurns == 3
SESSION_TTL == 1800

TopicServices ==
  {[clients |-> <<>>, reservations |-> <<>>],
   [clients |-> <<[id |-> 1, name |-> <<"M","a","r","i","o"," ","R","o","s","s","i">>]>>, reservations |-> <<R_TODO>>],
   \* a stay that ended three days ago, its check-in verified
   [clients |-> <<[id |-> 1, name |-> <<"M","a","r","i","o"," ","R","o","s","s","i">>]>>,
    reservations |-> <<[R_VERIFIED EXCEPT !.start_date = Ymd(Today - 5),
                                          !.end_date = Ymd(Today - 3)]>>]}
\* a message right after the previous one, or after the TTL has passed
Gaps == {60, SESSION_TTL + 1}

TopInit ==
  /\ session_store = [p \in {PHONE_A} |-> 0]
  /\ session_dicts = [d \in Dicts |-> NewSession]
  /\ handler = [t \in Threads |-> NoHandler]
  /\ svc \in TopicServices
  /\ turn = NoCall
  /\ turns = 0
  /\ overlaps = 0
  /\ log = <<>>
  /\ elapsed = 0

\* One inbound message enters handle_incoming_message some time after the
\* previous one.  The waits of a call are bounded by the timeouts of its
\* requests: a message that comes after the TTL finds no call running.
HandleMessageAfter(t) ==
  /\ turns < MaxTopicTurns
  /\ \E phone \in DOMAIN session_store, text \in TopicMessages,
        gap \in IF turns = 0 THEN {0} ELSE IF Quiet THEN Gaps ELSE {60} :
       setdefault(t, phone, text, gap)
  /\ UNCHANGED <<pol_vars, auth_vars, sel_vars, st_vars>>

\* A long dialogue: enough messages for the history to outgrow its bound.
MaxLongTurns == 7

\* One inbound message of a long dialogue enters handle_incoming_message.
HandleLongDialogue(t) ==
  /\ turns < MaxLongTurns
  /\ \E phone \in DOMAIN session_store, text \in {<<"/","r","e","s","e","t">>, <<"t","a","x","i">>, <<"n","o">>} :
       setdefault(t, phone, text, 0)
  /\ UNCHANGED <<pol_vars, auth_vars, sel_vars, st_vars>>

\* ---------------------------------------------------------------- state store

\* _StateStore of state.py: a dict of entries, each stamped by set with the
\* time it expires at; get drops an entry it finds expired.

MaxStoreCalls == 4
StMaxNow == 2700
StClockStep == 900

StInit ==
  /\ st_data = [k \in {"k1", "k2"} |-> <<>>]
  /\ st_now = 0
  /\ st_calls = 0
  /\ st_ret = [op |-> "", key |-> "", at |-> 0, result |-> <<>>]

\* _StateStore.get with the test "<=": an entry expiring now is dropped
StateStore_get_drops_at_expiry(data, key, time) ==
  IF data[key] = <<>> THEN [data |-> data, result |-> <<>>]
  ELSE IF data[key][1]._expires_at <= time
       THEN [data |-> [data EXCEPT ![key] = <<>>], result |-> <<>>]
       ELSE [data |-> data, result |-> data[key]]

\* _StateStore.get: the store after the call and what is returned (<<>>: {})
StateStore_get(data, key, time) ==
  IF data[key] = <<>> THEN [data |-> data, result |-> <<>>]
  ELSE IF data[key][1]._expires_at < time
       THEN [data |-> [data EXCEPT ![key] = <<>>], result |-> <<>>]
       ELSE [data |-> data, result |-> data[key]]

\* _StateStore.set: a copy of value with "_expires_at" is stored
StateStore_set(data, key, value, ttl, time) ==
  [data EXCEPT ![key] = <<[value |-> value, _expires_at |-> time + ttl]>>]

\* _StateStore.reset
StateStore_reset(data, key) == [data EXCEPT ![key] = <<>>]

StGet(key) ==
  /\ st_calls < MaxStoreCalls
  /\ \E got \in {StateStore_get(st_data, key, st_now)} :
       /\ st_data' = got.data
       /\ st_ret' = [op |-> "get", key |-> key, at |-> st_now, result |-> got.result]
  /\ st_calls' = st_calls + 1
  /\ UNCHANGED st_now
  /\ UNCHANGED <<pol_vars, dlg_vars, auth_vars, sel_vars, top_vars>>

StSet(key, value, ttl) ==
  /\ st_calls < MaxStoreCalls
  /\ st_data' = StateStore_set(st_data, key, value, ttl, st_now)
  /\ st_ret' = [op |-> "set", key |-> key, at |-> st_now, result |-> <<>>]
  /\ st_calls' = st_calls + 1
  /\ UNCHANGED st_now
  /\ UNCHANGED <<pol_vars, dlg_vars, auth_vars, sel_vars, top_vars>>

StReset(key) ==
  /\ st_calls < MaxStoreCalls
  /\ st_data' = StateStore_reset(st_data, key)
  /\ st_ret' = [op |-> "reset", key |-> key, at |-> st_now, result |-> <<>>]
  /\ st_calls' = st_calls + 1
  /\ UNCHANGED st_now
  /\ UNCHANGED <<pol_vars, dlg_vars, auth_vars, sel_vars, top_vars>>

\* Time passes.
StTick ==
  /\ st_now + StClockStep <= StMaxNow
  /\ st_now' = st_now + StClockStep
  /\ UNCHANGED <<st_data, st_calls, st_ret>>
  /\ UNCHANGED <<pol_vars, dlg_vars, auth_vars, sel_vars, top_vars>>

\* ---------------------------------------------------------------- claims on the policy

\* the reservation of the evaluated context, and whether its check-in status
\* is COMPLETED or VERIFIED (as the code compares it: upper-cased)
PolRes == pol_ctx.reservation[1]
CheckinVerified(res) ==
  /\ res.is_checkin_completed.t = "str"
  /\ str_upper(res.is_checkin_completed.s) \in {S_COMPLETED, S_VERIFIED}
StatusConfirmed(res) ==
  res.status.t = "str" /\ str_upper(res.status.s) = S_CONFIRMED
StartDay(res) == _parse_ymd(res.start_date)
EndDay(res) == _parse_ymd(res.end_date)

\* C7: should_offer_checkin_assets_auto returns false for every booking
\* context whose reservation has a check-in status other than COMPLETED or
\* VERIFIED (TO_DO, empty, missing or any unknown value), whatever the
\* reservation status, the guest status and the dates are.
C7_AutoFalseUnlessVerified ==
  (pol_pc = "evaluated" /\ pol_ctx.reservation # <<>> /\ ~CheckinVerified(PolRes))
    => pol_auto = "False"

\* C8 as claimed: should_offer_checkin_assets_auto returns true only if a
\* reservation exists, its status is CONFIRMED, a start date is known and
\* today lies in the half-open window start_date <= today < end_date.
C8_AutoOnlyInWindow ==
  (pol_pc = "evaluated" /\ pol_auto = "True")
    => /\ pol_ctx.reservation # <<>>
       /\ StatusConfirmed(PolRes)
       /\ StartDay(PolRes) # <<>>
       /\ EndDay(PolRes) # <<>>
       /\ StartDay(PolRes)[1] <= Today /\ Today < EndDay(PolRes)[1]

\* C8 as amended: should_offer_checkin_assets_auto returns true only if a
\* reservation exists, its status is CONFIRMED, a start date is known and
\* either today is the start date (whatever the end date is) or the end date
\* is known and start_date <= today < end_date; so it is false before the
\* start date, and false on or after the end date unless today is the start
\* date.
C8_AutoOnlyArrivalDayOrWindow ==
  (pol_pc = "evaluated" /\ pol_auto = "True")
    => /\ pol_ctx.reservation # <<>>
       /\ StatusConfirmed(PolRes)
       /\ StartDay(PolRes) # <<>>
       /\ \/ Today = StartDay(PolRes)[1]
          \/ /\ EndDay(PolRes) # <<>>
             /\ StartDay(PolRes)[1] <= Today /\ Today < EndDay(PolRes)[1]
\* a stay that began before today and ends after it was offered the links
C8_Witness ==
  /\ pol_pc = "evaluated" /\ pol_auto = "True"
  /\ StartDay(PolRes)[1] < Today

\* C9: explicit_access_request_blocked returns true exactly when a reservation
\* exists and its check-in status is anything other than COMPLETED or
\* VERIFIED (TO_DO, empty or an unknown value), and false otherwise.
C9_BlockedUnlessVerified ==
  pol_pc = "evaluated"
    => pol_blocked = IF pol_ctx.reservation # <<>> /\ ~CheckinVerified(PolRes)
                     THEN "True" ELSE "False"

\* C23: _normalize_reservation is idempotent and passes strings through:
\* normalizing a normalized reservation changes nothing, and a status, guest
\* status or check-in field that arrived as a string is in the normalized
\* reservation exactly as it arrived.
C23_NormalizeIdempotent ==
  (pol_pc # "raw" /\ pol_ctx.reservation # <<>>)
    => /\ _normalize_reservation(PolRes) = PolRes
       /\ pol_raw[1].status.t = "str" => PolRes.status = pol_raw[1].status
       /\ pol_raw[1].guest_status.t = "str" => PolRes.guest_status = pol_raw[1].guest_status
       /\ pol_raw[1].is_checkin_completed.t = "str"
            => PolRes.is_checkin_completed = pol_raw[1].is_checkin_completed
\* a normalized reservation whose status came in lower case and was kept so,
\* whose guest status was a code that got its label, and whose check-in was
\* a code outside the table, kept as the number
C23_Witness ==
  /\ pol_pc = "normalized" /\ pol_ctx.reservation # <<>>
  /\ pol_raw[1].status = PyStr(<<"c","o","n","f","i","r","m","e","d">>) /\ PolRes.status = PyStr(<<"c","o","n","f","i","r","m","e","d">>)
  /\ pol_raw[1].guest_status = PyInt(1) /\ PolRes.guest_status = PyStr(S_ARRIVED)
  /\ pol_raw[1].is_checkin_completed = PyInt(3) /\ PolRes.is_checkin_completed = PyInt(3)
  /\ PolRes.property_name = P_CASA_MONIC

\* ---------------------------------------------------------------- claims on the dialogue

Called == turn.phone # <<>>
TurnRes == turn.booking_ctx.reservation[1]
ExplicitAccessRequest(text) == wants_video(text) \/ wants_power(text)
CheckinToDo(res) ==
  res.is_checkin_completed.t = "str" /\ str_upper(res.is_checkin_completed.s) = S_TO_DO
AccessLinks == VideoLinks \cup PowerLinks
\* a raw numeric code in one of the enum fields
RawCode(res) ==
  \E v \in {res.status, res.guest_status, res.is_checkin_completed} : v.t = "int"

\* C2 as claimed: for every session state and every message that is an
\* explicit access request, if the context holds a reservation whose check-in
\* status is TO_DO, the reply is the verification-request text and holds no
\* check-in video or power-restoration link.
C2_ToDoGetsVerificationText ==
  (Called /\ ExplicitAccessRequest(turn.text)
     /\ turn.booking_ctx.reservation # <<>> /\ CheckinToDo(TurnRes))
    => turn.answer.kind = "verify_documents" /\ turn.answer.links \cap AccessLinks = {}

\* C2 as amended: such a reply never holds a check-in video or
\* power-restoration link; it is the verification-request text unless the
\* message also greets a caller whose client name is known (the greeting is
\* returned), a confirmation is pending and the message is a yes or a no (a
\* yes gets the confirmation with its own request for the documents, or the
\* call ends with a TypeError when another call of the caller has cleared the
\* pending confirmation meanwhile), or the property is known neither from the
\* reservation nor from the text (the property, or the pending confirmation,
\* is asked).
C2_ToDoNeverGetsLink ==
  (Called /\ ExplicitAccessRequest(turn.text)
     /\ turn.booking_ctx.reservation # <<>> /\ CheckinToDo(TurnRes))
    => /\ turn.answer.links \cap AccessLinks = {}
       /\ LET greeted == is_greeting(turn.text) /\ turn.booking_ctx.client # <<>>
                           /\ str_strip(turn.booking_ctx.client[1].name) # <<>>
              pending == turn.seen.pending_confirm # <<>>
              prop == IF property_name_from_ctx(turn.booking_ctx) # <<>>
                      THEN property_name_from_ctx(turn.booking_ctx)
                      ELSE extract_property_from_text(turn.text)
          IN  /\ (~greeted /\ pending /\ is_yes(turn.text))
                   => turn.answer.kind = "confirmed_verify_documents" \/ turn.answer = TypeError
              /\ (~greeted /\ ~(pending /\ (is_yes(turn.text) \/ is_no(turn.text)))
                    /\ prop # <<>>)
                   => turn.answer.kind = "verify_documents"
\* an explicit request on a reservation still TO_DO got the verification text
C2_Witness ==
  /\ Called /\ ExplicitAccessRequest(turn.text)
  /\ turn.booking_ctx.reservation # <<>> /\ CheckinToDo(TurnRes)
  /\ turn.answer.kind = "verify_documents"

\* C5 as claimed: any error raised during the resolution of the booking
\* context is caught and yields a context with client and reservation absent;
\* handle_incoming_message always returns a reply.
C5_ErrorGivesEmptyContext ==
  (Called /\ turn.errors # {})
    => /\ turn.booking_ctx.client = <<>> /\ turn.booking_ctx.reservation = <<>>
       /\ ~turn.raised

\* C5 as amended: no error of the resolution leaves get_booking_context.  A
\* failed direct lookup, or an error of the client search that is no
\* HTTPError, yields a context with client and reservation absent; an
\* HTTPError of the client search leaves the client absent and keeps the
\* reservation of the direct lookup; a failed fallback search leaves the
\* reservation absent and keeps the client.  The turn then ends with a reply,
\* with the AttributeError of C10 when the kept reservation carries an
\* unmapped numeric code, or with the TypeError of a pending confirmation
\* that another call of the caller has cleared meanwhile (C4).
C5_ErrorGivesDegradedContext ==
  (Called /\ turn.errors # {})
    => LET ctx == turn.booking_ctx
           whole == {e \in turn.errors : e[1] = "reservation" \/ e = <<"clients", "Exception">>}
       IN  /\ whole # {} => ctx.client = <<>> /\ ctx.reservation = <<>>
           /\ <<"clients", "HTTPError">> \in turn.errors =>
                /\ ctx.client = <<>>
                /\ ctx.reservation # <<>> => ctx.rid_found /\ ctx.reservation[1].id = ctx.rid_tried
           /\ (\E e \in turn.errors : e[1] = "reservations") =>
                ctx.client # <<>> /\ ctx.reservation = <<>>
           /\ turn.raised =>
                \/ ctx.reservation # <<>> /\ RawCode(ctx.reservation[1])
                \/ turn.answer = TypeError
\* the client search failed with an HTTPError and the reservation found by
\* its reference was kept
C5_Witness ==
  /\ Called /\ <<"clients", "HTTPError">> \in turn.errors
  /\ turn.booking_ctx.reservation # <<>> /\ ~turn.raised

\* the state of a brand-new caller
BrandNew(session) ==
  /\ session.history = <<>> /\ session.pending_confirm = <<>>
  /\ ~session.reservation_confirmed

\* C6: "/reset" removes the caller's session from the store and returns the
\* fixed confirmation, whatever the session held; the session is absent when
\* build_answer has handled the reset, and the message that arrives next is
\* handled from the state of a brand-new caller.
C6_ResetClearsSession ==
  /\ [](Called /\ is_reset(turn.text) => turn.answer = Say("reset"))
  /\ [][\A t \in Threads :
          (handler[t].pc = "build" /\ handler'[t].pc = "read"
             /\ is_reset(handler[t].call.text))
            => session_store'[handler[t].call.phone] = 0]_vars
  /\ [][\A t \in Threads :
          (handler[t].pc = "idle" /\ handler'[t].pc = "lookup")
            => \A prev \in {turn} \cup {handler[u].call : u \in Threads \ {t}} :
                 (is_reset(prev.text) /\ prev.phone = handler'[t].call.phone
                    /\ prev.n + 1 = handler'[t].call.n)
                   => BrandNew(handler'[t].call.session)]_vars

\* C10: every reservation attached to a session has its numeric codes
\* normalized (an unknown code becomes an explicit unknown value, no raw
\* number is kept), and handling a message with such a reservation does not
\* fail.
C10_NoRawCodeReachesDialogue ==
  /\ \A p \in DOMAIN session_store :
       (session_store[p] # 0 /\ session_dicts[session_store[p]].booking_ctx # <<>>
          /\ session_dicts[session_store[p]].booking_ctx[1].reservation # <<>>)
         => ~RawCode(session_dicts[session_store[p]].booking_ctx[1].reservation[1])
  /\ ~turn.raised

\* C11: within one session the booking context is resolved at most once: a
\* message that finds a context cached on its session and carries no
\* reservation reference causes no lookup of the booking service (direct
\* lookup, client search or fallback search).
C11_CachedContextNotResolvedAgain ==
  (Called /\ turn.session.booking_ctx # <<>> /\ facts(turn.text).rid = <<>>)
    => turn.lookups = {}

\* the direct lookup of the reference in the text was answered, and the
\* service holds no reservation with that id
ReferenceNotFound ==
  /\ Called /\ facts(turn.text).rid # <<>>
  /\ \A e \in turn.errors : e[1] # "reservation"
  /\ \A i \in DOMAIN svc.reservations : svc.reservations[i].id # facts(turn.text).rid

\* C14: whenever the message mentions a reservation reference and the direct
\* lookup finds no such reservation, the resolver records "tried and not
\* found" and the reply of the turn is the not-found message naming the
\* reference, whatever else the message and the session hold.
C14_UnknownReferenceGetsNotFound ==
  ReferenceNotFound
    => /\ turn.booking_ctx.rid_tried = facts(turn.text).rid
       /\ ~turn.booking_ctx.rid_found
       /\ turn.answer.kind = "reservation_not_found"
       /\ turn.answer.args = <<facts(turn.text).rid>>

\* the replies that count as a yes: the fixed vocabulary of the confirmation
AFFIRMATIVE == {<<"s","i">>, <<"s","i_grave">>, <<"o","k">>, <<"v","a"," ","b","e","n","e">>, <<"c","o","n","f","e","r","m","o">>, <<"y","e","s">>, <<"y">>}
\* the call took its message as the confirmation of the pending reservation
TakenAsYes ==
  Called /\ turn.answer.kind \in {"confirmed_links", "confirmed_verify_documents"}

\* C24: a reply counts as affirmative only when, trimmed and in lower case,
\* it is one of the words of the vocabulary; a reply that merely starts with
\* one of them is not taken as a confirmation.
C24_YesOnlyByExactMatch ==
  TakenAsYes => str_strip(str_lower(turn.text)) \in AFFIRMATIVE

\* the direct lookup of the reference in the text returned a reservation
DirectHit ==
  /\ Called /\ facts(turn.text).rid # <<>>
  /\ \A e \in turn.errors : e[1] # "reservation"
  /\ \E i \in DOMAIN svc.reservations : svc.reservations[i].id = facts(turn.text).rid

\* C27: rid_found is true exactly when the direct lookup by the mentioned
\* reference returned a reservation; a reservation the fallback search found
\* for the caller does not make it true.
C27_FoundMeansDirectHit ==
  Called => (turn.booking_ctx.rid_found <=> DirectHit)

\* C29: the reply "reservation not found" is given only when the booking
\* service reported the mentioned reference as absent, never when the
\* direct lookup failed with an error.
C29_NotFoundOnlyWhenAbsent ==
  (Called /\ turn.answer.kind = "reservation_not_found") => ReferenceNotFound

\* ---------------------------------------------------------------- claims on the client

\* C1 as claimed: in every call of _request a 401 triggers exactly one
\* re-authentication and exactly one retry of the request; a retry that fails
\* is surfaced with no further login or retry, so a call makes at most two
\* request attempts.
C1_OneReloginOneRetry ==
  \A t \in Threads :
    /\ req[t].attempts <= 2 /\ req[t].relogins <= 1
    /\ req[t].pc = "done" =>
         /\ req[t].first = 401 => req[t].relogins = 1 /\ req[t].attempts = 2
         /\ req[t].first # 401 => req[t].relogins = 0 /\ req[t].attempts <= 1
         /\ (req[t].attempts = 2 /\ req[t].last # 200) => req[t].result = "raised"

\* C1 as amended: a 401 triggers exactly one re-authentication and, when that
\* re-authentication returns, exactly one retry of the request; when the
\* re-authentication itself fails, its error is surfaced and the request is
\* not retried.  A retry that fails (a second 401 included) is surfaced with
\* no further login or retry, so a call makes at most two request attempts.
C1_OneReloginAtMostOneRetry ==
  \A t \in Threads :
    /\ req[t].attempts <= 2 /\ req[t].relogins <= 1
    /\ req[t].pc = "done" =>
         /\ req[t].first = 401 =>
              /\ req[t].relogins = 1
              /\ req[t].relogged => req[t].attempts = 2
              /\ ~req[t].relogged => req[t].attempts = 1 /\ req[t].result = "raised"
         /\ req[t].first # 401 => req[t].relogins = 0 /\ req[t].attempts <= 1
         /\ (req[t].attempts = 2 /\ req[t].last # 200) => req[t].result = "raised"
\* a call whose retry was answered 401 again, surfaced after two attempts
C1_Witness ==
  \E t \in Threads :
    /\ req[t].pc = "done" /\ req[t].first = 401 /\ req[t].last = 401
    /\ req[t].attempts = 2 /\ req[t].relogins = 1 /\ req[t].result = "raised"

\* the threads whose _login is in flight
LoggingIn == {t \in Threads : req[t].pc \in {"login_wait", "relogin_wait"}}

\* C3: the cached credential is refreshed under mutual exclusion: at most one
\* _login is in flight at any time, and a refresh never replaces the cached
\* token by one issued earlier (or by none).
C3_RefreshIsExclusive ==
  /\ [](Cardinality(LoggingIn) <= 1)
  /\ [][cb_token' # cb_token => cb_token' > cb_token]_vars

\* the clock reading the test of _ensure_token is made with
EnsureTime(t) == IF req[t].pc = "ensure" THEN now ELSE req[t].seen_now

\* C20: _ensure_token goes to _login exactly when no token is cached or the
\* clock has reached the cached expiry minus 60 seconds; with a token cached
\* whose expiry is more than 60 seconds away the call goes on to its request
\* without a login.
C20_LoginExactlyWhenDue ==
  [][\A t \in Threads :
       (req[t].pc \in {"ensure", "ensure_exp"} /\ req'[t].pc \in {"login", "send"})
         => /\ req'[t].logins = 0
            /\ IF cb_token = 0 \/ EnsureTime(t) >= cb_token_exp - 60
               THEN req'[t].pc = "login" ELSE req'[t].pc = "send"]_vars

\* ---------------------------------------------------------------- claims on concurrent handlers

\* the calls that returned for a phone, and those of them that wrote the history
SentTo(p) == {i \in 1..Len(log) : log[i].phone = p}
Answered(p) == {i \in SentTo(p) : ~log[i].raised}
NeverReset(p) == \A i \in SentTo(p) : ~facts(log[i].text).reset

\* C4: the updates of a caller's session are serialized: once the handlers
\* have returned, the history of a caller who sent no reset holds the
\* message/answer pair of each of the caller's messages (up to the length
\* bound), and holds no message of another caller.
C4_NoUpdateLost ==
  Quiet =>
    \A p \in ConcPhones :
      (NeverReset(p) /\ SentTo(p) # {}) =>
        /\ session_store[p] # 0
        /\ LET h == session_dicts[session_store[p]].history
               n == 2 * Cardinality(Answered(p))
           IN  /\ Len(h) = IF n <= MAX_MESSAGES THEN n ELSE MAX_MESSAGES
               /\ n <= MAX_MESSAGES =>
                    \A i \in Answered(p) :
                      \E j \in 1..(Len(h) - 1) :
                        /\ h[j] = UserEntry(log[i].text)
                        /\ h[j + 1] = AssistantEntry(log[i].answer)
               /\ \A j \in 1..Len(h) :
                    h[j].role = "user" => \E i \in SentTo(p) : log[i].text = h[j].text

\* ---------------------------------------------------------------- claims on the fallback search

\* the rows of the candidate client, as get_booking_context hands them on
SelMatching == {_normalize_reservation(r) : r \in {h \in sel_held : h.client_id = SelClient.id}}
\* the ranking: in-stay before future before past, confirmed before pending,
\* then the distance in days of the start date from today
Bucket(res) ==
  IF StartDay(res)[1] <= Today /\ Today <= EndDay(res)[1] THEN 0
  ELSE IF StartDay(res)[1] > Today THEN 1 ELSE 2
StatusRank(res) ==
  IF res.status = PyStr(S_CONFIRMED) THEN 0 ELSE IF res.status = PyStr(S_PENDING) THEN 1 ELSE 2
Distance(res) ==
  IF StartDay(res)[1] >= Today THEN StartDay(res)[1] - Today ELSE Today - StartDay(res)[1]
RanksBefore(a, b) ==
  \/ Bucket(a) < Bucket(b)
  \/ Bucket(a) = Bucket(b) /\ StatusRank(a) < StatusRank(b)
  \/ Bucket(a) = Bucket(b) /\ StatusRank(a) = StatusRank(b) /\ Distance(a) < Distance(b)

\* C12: in the fallback search the reservation selected among those of the
\* candidate client is the best by the ranking: none of the client's other
\* reservations ranks before it.
C12_FallbackPicksBestRanked ==
  \A i \in DOMAIN sel_results :
    (sel_results[i].client = SelClient /\ SelMatching # {}) =>
      /\ sel_results[i].picked # <<>>
      /\ sel_results[i].picked[1] \in SelMatching
      /\ \A r \in SelMatching : ~RanksBefore(r, sel_results[i].picked[1])

\* C13: the selection is deterministic: for a fixed set of reservations, in
\* whatever order the service returns them, every resolution yields the same
\* reservation.
C13_SelectionIgnoresOrder ==
  \A i, j \in DOMAIN sel_results :
    sel_results[i].client = sel_results[j].client
      => sel_results[i].picked = sel_results[j].picked

\* C28: the reservation the fallback search attaches always carries a client
\* reference whose id is the id of the candidate client found by phone; a
\* reservation with no client reference, or of another client, is never
\* attached, also when the candidate client record has no id.
C28_PickedBelongsToClient ==
  \A i \in DOMAIN sel_results :
    sel_results[i].picked # <<>>
      => /\ sel_results[i].picked[1].client_id # 0
         /\ sel_results[i].picked[1].client_id = sel_results[i].client.id

\* ---------------------------------------------------------------- transfer, secrets, expiry

\* the four fields of a transfer summary: people, time, origin, destination
TransferFields == turn.answer.args

\* C15: the transfer dialogue asks for the missing fields one at a time, in
\* the order people, time, origin, destination; the priced summary with its
\* yes/no prompt is given only when all four fields are known.
C15_SummaryOnlyWhenComplete ==
  (Called /\ turn.answer.kind = "transfer_summary")
    => \A i \in 1..4 : TransferFields[i] # <<>>

\* the reply before this message was a transfer summary asking for yes or
\* no, and this message came within the lifetime of the session
AwaitingConfirmation ==
  /\ Called /\ elapsed <= SESSION_TTL
  /\ turn.session.history # <<>>
  /\ turn.session.history[Len(turn.session.history)].answer.kind = "transfer_summary"

\* the reply asks for yes or no again and holds the fields of the summary
\* before it
AsksAgain ==
  /\ turn.answer.kind \in {"transfer_reask", "transfer_summary"}
  /\ turn.answer.args = turn.session.history[Len(turn.session.history)].answer.args

\* C16: after the summary, a yes is acknowledged as final and a no as a
\* cancellation, and any other reply gets the yes/no question again with the
\* collected fields kept.  Replies delegated to the language model are left
\* out: their text is not decided by the program.
C16_SummaryAwaitsYesOrNo ==
  (AwaitingConfirmation /\ turn.answer.kind # "llm")
    => LET t == str_strip(str_lower(turn.text))
       IN  IF t \in YES_WORDS THEN turn.answer.kind = "transfer_done"
           ELSE IF t \in NO_WORDS THEN turn.answer.kind = "transfer_canceled"
           ELSE AsksAgain

AirportMarked(place) == str_contains(<<"a","e","r","o","p","o","r","t","o">>, str_lower(place))

\* C17: the tariff of a transfer summary is the airport tariff exactly when
\* the origin or the destination carries the airport marker, whether or not
\* the other side is known, and the city tariff otherwise.
C17_AirportTariffOnEitherSide ==
  (Called /\ turn.answer.kind = "transfer_summary"
     /\ (TransferFields[3] # <<>> \/ TransferFields[4] # <<>>))
    => turn.answer.n =
         IF AirportMarked(TransferFields[3]) \/ AirportMarked(TransferFields[4])
         THEN KB_aeroporto_citta ELSE KB_citta_citta

\* app.py configures no list of sensitive terms; this one-term list stands
\* for any list an operator could configure.
SENSITIVE_TERMS == {<<"p","a","s","s","w","o","r","d">>}

\* C18: a message containing a sensitive term gets the fixed cautionary
\* reply, whatever else it asks, and causes no lookup of the booking service.
C18_SensitiveGuardFirst ==
  (Called /\ any_in(SENSITIVE_TERMS, str_lower(turn.text)))
    => turn.answer.kind = "sensitive_reply" /\ turn.lookups = {}

\* C19: a message that arrives more than the TTL after the caller's previous
\* message is handled with a new, empty session.
C19_SessionExpires ==
  (Called /\ elapsed > SESSION_TTL) => turn.session = NewSession

\* the history of the session the last call worked on, as the call left it
HistoryAtEnd == turn.session_end.history

\* C22: after every completed call of handle_incoming_message the history of
\* the session holds at most 12 entries, and its last two entries are the
\* user message and the assistant answer of that call, in this order.
C22_HistoryBoundedEndsWithTurn ==
  (Called /\ ~turn.raised)
    => /\ Len(HistoryAtEnd) <= 12
       /\ Len(HistoryAtEnd) >= 2
       /\ HistoryAtEnd[Len(HistoryAtEnd) - 1] = [role |-> "user", text |-> turn.text, answer |-> Say("")]
       /\ HistoryAtEnd[Len(HistoryAtEnd)] = [role |-> "assistant", text |-> <<>>, answer |-> turn.answer]
\* a call that found twelve entries in the history and left twelve, the two
\* oldest dropped
C22_Witness ==
  /\ Called /\ ~turn.raised
  /\ Len(turn.session.history) = 12 /\ Len(HistoryAtEnd) = 12
  /\ HistoryAtEnd[1] = turn.session.history[3]

\* where a standalone run of six or more digits starts in the text
RunsOfSix(text) ==
  {i \in 1..Len(text) :
     /\ text[i] \in Digits /\ boundary_before(text, i)
     /\ digit_run(text, i) >= 6
     /\ boundary_after(text, i + digit_run(text, i) - 1)}
\* the reference the text mentions: its first such run, <<>> when it has none
Mentioned(text) ==
  IF RunsOfSix(text) = {} THEN <<>>
  ELSE SubSeq(text, least(RunsOfSix(text)),
              least(RunsOfSix(text)) + digit_run(text, least(RunsOfSix(text))) - 1)

\* C25: a direct reservation lookup is attempted exactly when the text holds
\* a standalone run of six or more digits, with that run as the identifier;
\* a text with no such run attempts none and is recorded as not mentioned.
C25_LookupForSixDigits ==
  Called =>
    /\ ("reservation" \in turn.lookups) <=> (Mentioned(turn.text) # <<>>)
    /\ turn.booking_ctx.rid_tried = Mentioned(turn.text)

\* C26: a reply that carries a check-in video link or a power link, to a
\* message that is not an explicit request for access, video or power, is
\* given only when the booking context of the turn has a reservation with
\* status CONFIRMED, check-in COMPLETED or VERIFIED, and today within the
\* stay; the reply to the yes that confirms the pending reservation included.
C26_LinksOnlyUnderPolicy ==
  (Called /\ ~ExplicitAccessRequest(turn.text) /\ turn.answer.links \cap AccessLinks # {})
    => /\ turn.booking_ctx.reservation # <<>>
       /\ StatusConfirmed(TurnRes)
       /\ CheckinVerified(TurnRes)
       /\ StartDay(TurnRes) # <<>> /\ EndDay(TurnRes) # <<>>
       /\ StartDay(TurnRes)[1] <= Today /\ Today <= EndDay(TurnRes)[1]

\* ---------------------------------------------------------------- claims on the state store

\* C21: entries expire passively, on access.  A call of get on an entry whose
\* expiry is earlier than now removes it and returns {}; on an entry that is
\* not expired it returns that entry and leaves the store as it was; and an
\* entry leaves the store only by such a get, by a reset of its key, or by a
\* set that replaces it: the passing of time removes nothing.
C21_ExpiryOnAccess ==
  [][/\ (st_calls' # st_calls /\ st_ret'.op = "get") =>
          LET key == st_ret'.key
              held == st_data[key]
          IN  /\ (held # <<>> /\ held[1]._expires_at < st_now)
                   => st_ret'.result = <<>> /\ st_data'[key] = <<>>
              /\ (held # <<>> /\ held[1]._expires_at >= st_now)
                   => st_ret'.result = held /\ st_data' = st_data
              /\ held = <<>> => st_ret'.result = <<>> /\ st_data' = st_data
              /\ \A k \in DOMAIN st_data \ {key} : st_data'[k] = st_data[k]
     /\ \A k \in DOMAIN st_data :
          (st_data[k] # <<>> /\ st_data'[k] # st_data[k])
            => /\ st_calls' # st_calls /\ st_ret'.key = k
               /\ \/ st_ret'.op \in {"set", "reset"}
                  \/ st_ret'.op = "get" /\ st_data[k][1]._expires_at < st_now
    ]_vars
\* a get at the very second an entry expires returned the entry, with a
\* second entry in the store, set later
C21_Witness ==
  /\ st_ret.op = "get" /\ st_ret.result # <<>>
  /\ st_ret.result[1]._expires_at = st_ret.at /\ st_ret.at > 0
  /\ \E k \in DOMAIN st_data \ {st_ret.key} : st_data[k] # <<>>

\* ---------------------------------------------------------------- specifications

PolIdle ==
  /\ pol_pc = "idle" /\ pol_raw = <<>> /\ pol_ctx = EmptyCtx
  /\ pol_auto = "" /\ pol_blocked = ""
DlgIdle ==
  /\ session_store = [p \in {PHONE_A} |-> 0]
  /\ session_dicts = [d \in Dicts |-> NewSession]
  /\ handler = [t \in Threads |-> NoHandler]
  /\ svc = [clients |-> <<>>, reservations |-> <<>>]
  /\ turn = NoCall
  /\ turns = 0
  /\ overlaps = 0
  /\ log = <<>>
AuthIdle == AuthInit
SelIdle == sel_held = {} /\ sel_results = <<>>
TopIdle == elapsed = 0
StIdle == StInit

\* The disclosure policy applied to every reservation the service may return.
InitPolicy == PolInit /\ DlgIdle /\ AuthIdle /\ SelIdle /\ TopIdle /\ StIdle
NextPolicy == PolNormalize \/ PolEvaluate
SpecPolicy == InitPolicy /\ [][NextPolicy]_vars

\* The dialogue of one caller, its messages handled by the threads of the
\* server.
Init == DlgInit /\ PolIdle /\ AuthIdle /\ SelIdle /\ TopIdle /\ StIdle
Next ==
  \/ \E t \in Threads : HandleMessage(t)
  \/ \E t \in Threads : Lookup(t, Failures)
  \/ \E t \in Threads : BuildAnswer(t)
  \/ \E t \in Threads : ReadHistory(t)
  \/ \E t \in Threads : WriteHistory(t)
Spec == Init /\ [][Next]_vars

\* The shared client used by concurrent threads.
InitAuth == AuthInit /\ PolIdle /\ DlgIdle /\ SelIdle /\ TopIdle /\ StIdle
NextAuth ==
  \/ \E t \in Threads : Call(t)
  \/ \E t \in Threads : EnsureToken(t)
  \/ \E t \in Threads : EnsureClock(t)
  \/ \E t \in Threads : EnsureExpiry(t)
  \/ \E t \in Threads : LoginPost(t)
  \/ \E t \in Threads : LoginDone(t)
  \/ \E t \in Threads : LoginClock(t)
  \/ \E t \in Threads : LoginExpiry(t)
  \/ \E t \in Threads : LoginFail(t)
  \/ \E t \in Threads : Send(t)
  \/ \E t \in Threads : Resend(t)
  \/ \E t \in Threads : SendFails(t)
  \/ \E t \in Threads : Return(t)
  \/ Tick
SpecAuth == InitAuth /\ [][NextAuth]_vars

\* The messages of two callers.
InitConc == ConcInit /\ PolIdle /\ AuthIdle /\ SelIdle /\ TopIdle /\ StIdle
NextConc ==
  \/ \E t \in Threads : HandleConcurrent(t)
  \/ \E t \in Threads : Lookup(t, {NoFailure})
  \/ \E t \in Threads : BuildAnswer(t)
  \/ \E t \in Threads : ReadHistory(t)
  \/ \E t \in Threads : WriteHistory(t)
SpecConc == InitConc /\ [][NextConc]_vars

\* The fallback search, resolved repeatedly against the same reservations.
InitSelect == SelInit /\ PolIdle /\ DlgIdle /\ AuthIdle /\ TopIdle /\ StIdle
NextSelect == SelResolve
SpecSelect == InitSelect /\ [][NextSelect]_vars

\* The dialogue on the transfer, with time passing between the messages.
InitTopics == TopInit /\ PolIdle /\ AuthIdle /\ SelIdle /\ StIdle
NextTopics ==
  \/ \E t \in Threads : HandleMessageAfter(t)
  \/ \E t \in Threads : Lookup(t, {NoFailure})
  \/ \E t \in Threads : BuildAnswer(t)
  \/ \E t \in Threads : ReadHistory(t)
  \/ \E t \in Threads : WriteHistory(t)
SpecTopics == InitTopics /\ [][NextTopics]_vars

\* The store of state.py under any sequence of its operations.
InitStore == StInit /\ PolIdle /\ DlgIdle /\ AuthIdle /\ SelIdle /\ TopIdle
NextStore ==
  \/ \E key \in DOMAIN st_data, value \in {"v1", "v2"}, ttl \in {SESSION_TTL, 0} :
       StSet(key, value, ttl)
  \/ \E key \in DOMAIN st_data : StGet(key)
  \/ \E key \in DOMAIN st_data : StReset(key)
  \/ StTick
SpecStore == InitStore /\ [][NextStore]_vars

\* A dialogue long enough for the history to be clamped.
InitHistory == TopInit /\ PolIdle /\ AuthIdle /\ SelIdle /\ StIdle
NextHistory ==
  \/ \E t \in Threads : HandleLongDialogue(t)
  \/ \E t \in Threads : Lookup(t, {NoFailure})
  \/ \E t \in Threads : BuildAnswer(t)
  \/ \E t \in Threads : ReadHistory(t)
  \/ \E t \in Threads : WriteHistory(t)
SpecHistory == InitHistory /\ [][NextHistory]_vars
====
